---- MODULE Spec2Model ----
(***************************************************************************)
(* State Transition Engine of specwright (specwright/state_machine.py).    *)
(*                                                                         *)
(* A machine class is declared (states, initial_state, track_history,      *)
(* @transition-decorated operations, on_exit_<s>/on_enter_<s> hooks),      *)
(* validated by __init_subclass__, instantiated by __init__, and then its  *)
(* guarded operations are called.  The guarded body and the lifecycle      *)
(* hooks are user code: each is a callback that is entered, runs while the *)
(* instance can be observed, and then returns or raises.                   *)
(***************************************************************************)
EXTENDS Integers, Sequences, FiniteSets, TLC

VARIABLES
    cls,            \* the class body as written (the declaration)
    status,         \* "declared" | "accepted" | "rejected"
    def_error,      \* exception raised by the class statement, or NoExc
    alive,          \* an instance has been constructed
    state,          \* self._state
    lists,          \* the list objects of the heap; lists[1] is self._state_history
    snap,           \* id of the list the caller got from state_history, 0 if none
    stack,          \* the frames of the guarded calls in progress
    events,         \* what the current (or last) outermost call did, in order
    last,           \* how the last completed outermost call ended
    calls,          \* number of guarded calls made so far
    reentered,      \* a guarded call was made from inside a guarded body or an exit hook
    handlers,       \* the dict passed to handle_errors, in insertion order
    catchable,      \* tuple(handlers.keys()) taken when handle_errors was applied
    hstatus,        \* "configured" | "decorated" | "rejected"
    wrapped,        \* how the callable is decorated: nesting order and @spec options
    cargs,          \* the argument of the current (or last) call of the decorated callable
    cstack,         \* the wrapper frames of the call in progress, outermost first
    cout,           \* how the last call of handle_errors(...) or of the callable ended
    hlog,           \* the records written to the logger
    hevents,        \* what the current (or last) call invoked, in order
    dcalls,         \* number of calls made on the decorated callable
    fdef,           \* the function as written: docstring, parameters, return annotation
    rlists,         \* the list objects of specwright.testing; rlists[1] is _registry
    rsnap,          \* id of the list the caller got last from get_registry, 0 if none
    rfuncs,         \* the functions decorated by requires_tests: their __test_requirements__
    rout,           \* what the last call of a decorated function returned
    tnames,         \* what the last read of expected_test_names returned, and of which function
    pout            \* what the last run of pytest_collection_modifyitems saw and did

\* the state machine engine
smvars == <<cls, status, def_error, alive, state, lists, snap, stack, events, last, calls,
           reentered>>

\* the decorators: error dispatch and type contract
devars == <<handlers, catchable, hstatus, wrapped, cargs, cstack, cout, hlog, hevents, dcalls, fdef>>

\* the test requirements: requires_tests and its registry
tvars == <<rlists, rsnap, rfuncs, rout, tnames, pout>>

vars == <<smvars, devars, tvars>>

----------------------------------------------------------------------------
(* Bounds *)

\* guarded calls made on one instance
MaxCalls == 3
\* length up to which a caller grows a list it got from state_history
MaxSnapLen == 2

----------------------------------------------------------------------------
(* Values *)

Names == {"pending", "paid", "shipped"}

Missing == "<missing>"

\* sorted() on the state names: the position of a name in lexicographic order
NameRank == [n \in Names |->
    CASE n = "paid" -> 1
      [] n = "pending" -> 2
      [] n = "shipped" -> 3]

OpNames == <<"pay", "ship">>

BodyResults == {"None", "receipt"}

UserExceptions == {"ValueError", "RuntimeError"}

NoExc == [type |-> "", detail |-> "", current |-> "", to |-> "", via |-> "", expected |-> <<>>]

UserExc(t) == [NoExc EXCEPT !.type = t]

Range(s) == {s[i] : i \in 1..Len(s)}

RECURSIVE sorted(_)
sorted(S) ==
    IF S = {} THEN <<>>
    ELSE LET m == CHOOSE x \in S : \A y \in S : NameRank[x] <= NameRank[y]
         IN <<m>> \o sorted(S \ {m})

----------------------------------------------------------------------------
(* @transition(from_state=..., to_state=...) *)

\* from_state as written: a single name (is_str) or a list of names
FromStr(n) == [is_str |-> TRUE, items |-> <<n>>]
FromList(s) == [is_str |-> FALSE, items |-> s]

TransitionMeta(from_states, to_state) == [from_states |-> from_states, to_state |-> to_state]

transition_IncludesTarget(from_state, to_state) ==
    LET from_states == IF from_state.is_str THEN {from_state.items[1]}
                       ELSE Range(from_state.items)
    IN TransitionMeta(from_states \cup {to_state}, to_state)

transition(from_state, to_state) ==
    LET from_states == IF from_state.is_str THEN {from_state.items[1]}
                       ELSE Range(from_state.items)
    IN TransitionMeta(from_states, to_state)

\* the __transition__ attribute of operation op of class c
Meta(c, op) == transition(c.ops[op].from_state, c.ops[op].to_state)

----------------------------------------------------------------------------
(* Class definition *)

InvalidStateError(detail, attr) ==
    [NoExc EXCEPT !.type = "InvalidStateError", !.detail = detail, !.via = attr]

\* first transition attribute, in dir() order, that fails the checks of the loop
RECURSIVE validate_transitions(_, _, _)
validate_transitions(c, state_set, i) ==
    IF i > Len(OpNames) THEN NoExc
    ELSE LET attr_name == OpNames[i]
             meta == Meta(c, attr_name)
             invalid_from == meta.from_states \ state_set
         IN IF invalid_from # {} THEN InvalidStateError("invalid from_state", attr_name)
            ELSE IF meta.to_state \notin state_set
                 THEN InvalidStateError("invalid to_state", attr_name)
            ELSE validate_transitions(c, state_set, i + 1)

validate_state_machine_class(c) ==
    LET states == c.states
        state_set == Range(states)
    IN IF states = <<>> THEN InvalidStateError("at least one state", "")
       ELSE IF c.initial_state = Missing THEN InvalidStateError("must define initial_state", "")
       ELSE IF c.initial_state \notin state_set THEN InvalidStateError("initial state not in states", "")
       ELSE validate_transitions(c, state_set, 1)

init_subclass(c) ==
    IF c.has_states THEN validate_state_machine_class(c) ELSE NoExc

----------------------------------------------------------------------------
(* The class bodies the model draws from *)

StatesChoices == {<<>>, <<"pending", "paid">>, <<"pending", "paid", "shipped">>}

InitialChoices == {Missing, "pending", "shipped"}

FromArgs == {FromStr("pending"), FromStr("paid"), FromList(<<>>),
             FromList(<<"pending", "paid">>), FromList(<<"paid", "shipped">>)}

OpDecls == [from_state : FromArgs, to_state : Names]

ExitHookChoices == {{}, {"pending", "paid"}}

EnterHookChoices == {{}, {"paid", "shipped"}}

\* has_states: the class body assigns `states` (hasattr(cls, "states"))
Declarations ==
    {d \in [has_states : BOOLEAN, states : StatesChoices, initial_state : InitialChoices,
            track_history : BOOLEAN, ops : [Range(OpNames) -> OpDecls],
            on_exit : ExitHookChoices, on_enter : EnterHookChoices] :
        ~d.has_states => d.states = <<>>}

----------------------------------------------------------------------------
(* Frames and outcomes *)

NoCall == [op |-> "", outcome |-> "none", value |-> "None", exc |-> NoExc, origin |-> "",
           pre_state |-> "", pre_history |-> <<>>, body_result |-> "None"]

\* locals of wrapper (result, old_state), its position (pc), and what the
\* instance was when the call was made (pre_state, pre_history)
Frame(op, st, hist) ==
    [op |-> op, pc |-> "body", result |-> "None", old_state |-> "",
     pre_state |-> st, pre_history |-> hist, body_result |-> "None"]

\* seen: the state the instance reports when the event happens
Event(kind, key, seen) == [kind |-> kind, key |-> key, seen |-> seen]

InvalidTransitionError(current, to, via, expected) ==
    [NoExc EXCEPT !.type = "InvalidTransitionError", !.current = current, !.to = to,
                  !.via = via, !.expected = expected]

AttributeError(name) == [NoExc EXCEPT !.type = "AttributeError", !.detail = name]

Top == stack[Len(stack)]

Pop == SubSeq(stack, 1, Len(stack) - 1)

ReplaceTop(f) == [stack EXCEPT ![Len(stack)] = f]

\* self._state_history
StoredHistory == IF alive THEN lists[1] ELSE <<>>

----------------------------------------------------------------------------
(* Outcomes of a call of a decorated callable *)

NoOutcome == [kind |-> "none", value |-> "None", exc |-> NoExc]

Returned(v) == [kind |-> "returned", value |-> v, exc |-> NoExc]

Raised(e) == [kind |-> "raised", value |-> "None", exc |-> e]

NoFunction == [doc |-> "<missing>", params |-> <<>>, return |-> "<missing>"]

NoWrapped == [nesting |-> "", validate_inputs |-> FALSE, validate_output |-> FALSE]

\* no function requires tests
NoTesting ==
    /\ rlists = <<<<>>>>
    /\ rsnap = 0
    /\ rfuncs = <<>>
    /\ rout = [fn |-> 0, value |-> "None"]
    /\ tnames = [fn |-> 0, names |-> <<>>]
    /\ pout = [enforcement |-> "", registry |-> <<>>, collected_names |-> {},
               outcome |-> "none", report |-> <<>>]

\* nothing is decorated
NoDecorators ==
    /\ handlers = <<>>
    /\ catchable = <<>>
    /\ hstatus = "configured"
    /\ wrapped = NoWrapped
    /\ cargs = "None"
    /\ cstack = <<>>
    /\ cout = NoOutcome
    /\ hlog = <<>>
    /\ hevents = <<>>
    /\ dcalls = 0
    /\ fdef = NoFunction

----------------------------------------------------------------------------
Init ==
    /\ cls \in Declarations
    /\ status = "declared"
    /\ def_error = NoExc
    /\ alive = FALSE
    /\ state = Missing
    /\ lists = <<>>
    /\ snap = 0
    /\ stack = <<>>
    /\ events = <<>>
    /\ last = NoCall
    /\ calls = 0
    /\ reentered = FALSE
    /\ NoDecorators
    /\ NoTesting

\* the class statement runs StateMachine.__init_subclass__
DefineClass ==
    /\ status = "declared"
    /\ def_error' = init_subclass(cls)
    /\ status' = IF def_error' = NoExc THEN "accepted" ELSE "rejected"
    /\ UNCHANGED <<cls, reentered, alive, state, lists, snap, stack, events, last, calls>>
    /\ UNCHANGED <<devars, tvars>>

Construct_AlwaysTracks ==
    /\ status = "accepted"
    /\ ~alive
    /\ last = NoCall
    /\ IF cls.initial_state = Missing
       THEN /\ last' = [NoCall EXCEPT !.op = "__init__", !.outcome = "raised",
                                      !.exc = AttributeError("initial_state")]
            /\ UNCHANGED <<alive, state, lists>>
       ELSE /\ alive' = TRUE
            /\ state' = cls.initial_state
            /\ lists' = << <<cls.initial_state>> >>
            /\ last' = [NoCall EXCEPT !.op = "__init__", !.outcome = "returned"]
    /\ UNCHANGED <<cls, reentered, status, def_error, snap, stack, events, calls>>
    /\ UNCHANGED <<devars, tvars>>

\* StateMachine.__init__
Construct ==
    /\ status = "accepted"
    /\ ~alive
    /\ last = NoCall
    /\ IF cls.initial_state = Missing
       THEN /\ last' = [NoCall EXCEPT !.op = "__init__", !.outcome = "raised",
                                      !.exc = AttributeError("initial_state")]
            /\ UNCHANGED <<alive, state, lists>>
       ELSE /\ alive' = TRUE
            /\ state' = cls.initial_state
            /\ lists' = << IF cls.track_history THEN <<cls.initial_state>> ELSE <<>> >>
            /\ last' = [NoCall EXCEPT !.op = "__init__", !.outcome = "returned"]
    /\ UNCHANGED <<cls, reentered, status, def_error, snap, stack, events, calls>>
    /\ UNCHANGED <<devars, tvars>>

----------------------------------------------------------------------------
(* transition.decorator.wrapper *)

Return_None(f) ==
    /\ stack' = Pop
    /\ last' = [NoCall EXCEPT !.op = f.op, !.outcome = "returned", !.value = "None",
                              !.pre_state = f.pre_state, !.pre_history = f.pre_history,
                              !.body_result = f.body_result]

\* line 69: return result
Return(f) ==
    /\ stack' = Pop
    /\ last' = [NoCall EXCEPT !.op = f.op, !.outcome = "returned", !.value = f.result,
                              !.pre_state = f.pre_state, !.pre_history = f.pre_history,
                              !.body_result = f.body_result]

\* an exception raised by a callback at `origin` leaves the wrapper, which has no handler
Raise(f, e, origin) ==
    /\ stack' = Pop
    /\ last' = [NoCall EXCEPT !.op = f.op, !.outcome = "raised", !.exc = e, !.origin = origin,
                              !.pre_state = f.pre_state, !.pre_history = f.pre_history,
                              !.body_result = f.body_result]

Commit_AppendsOldState(f) ==
    LET meta == Meta(cls, f.op)
    IN /\ state' = meta.to_state
       /\ lists' = IF cls.track_history
                   THEN [lists EXCEPT ![1] = Append(@, f.old_state)]
                   ELSE lists

\* lines 60-63: assign the target state, append it to the history
Commit(f) ==
    LET meta == Meta(cls, f.op)
    IN /\ state' = meta.to_state
       /\ lists' = IF cls.track_history
                   THEN [lists EXCEPT ![1] = Append(@, meta.to_state)]
                   ELSE lists

\* the events of lines 60-63, with the state the instance reports after line 60
CommitEvents(f) ==
    LET meta == Meta(cls, f.op)
    IN <<Event("assign", meta.to_state, state')>>
       \o (IF cls.track_history THEN <<Event("append", meta.to_state, state')>> ELSE <<>>)

\* lines 65-69: look up on_enter_<to_state>; call it, or return the result
EnterLookup(f, ev) ==
    LET meta == Meta(cls, f.op)
    IN IF meta.to_state \in cls.on_enter
       THEN /\ stack' = ReplaceTop([f EXCEPT !.pc = "on_enter"])
            /\ events' = Append(ev, Event("on_enter", meta.to_state, state'))
            /\ last' = last
       ELSE /\ Return(f)
            /\ events' = ev

Reject_Commits(op) ==
    LET meta == Meta(cls, op)
    IN /\ last' = [NoCall EXCEPT !.op = op, !.outcome = "raised", !.origin = "guard",
                        !.exc = InvalidTransitionError(state, meta.to_state, op,
                                                       sorted(meta.from_states)),
                        !.pre_state = state, !.pre_history = StoredHistory]
       /\ events' = <<>>
       /\ state' = meta.to_state
       /\ UNCHANGED <<stack, lists>>

\* lines 43-49: the current state is not a source state
Reject(op) ==
    LET meta == Meta(cls, op)
    IN /\ last' = [NoCall EXCEPT !.op = op, !.outcome = "raised", !.origin = "guard",
                        !.exc = InvalidTransitionError(state, meta.to_state, op,
                                                       sorted(meta.from_states)),
                        !.pre_state = state, !.pre_history = StoredHistory]
       /\ events' = <<>>
       /\ UNCHANGED <<stack, state, lists>>

Enter_CommitFirst(op) ==
    /\ stack' = Append(stack, Frame(op, state, StoredHistory))
    /\ events' = <<Event("body", op, state)>>
    /\ last' = NoCall
    /\ state' = Meta(cls, op).to_state
    /\ UNCHANGED lists

\* line 51: the guarded body is entered
Enter(op) ==
    /\ stack' = Append(stack, Frame(op, state, StoredHistory))
    /\ events' = <<Event("body", op, state)>>
    /\ last' = NoCall
    /\ UNCHANGED <<state, lists>>

Call_NoGuard(op) ==
    /\ alive
    /\ stack = <<>>
    /\ calls < MaxCalls
    /\ calls' = calls + 1
    /\ Enter(op)
    /\ UNCHANGED <<cls, reentered, status, def_error, alive, snap>>
    /\ UNCHANGED <<devars, tvars>>

\* lines 42-51: a guarded operation is called
Call(op) ==
    /\ alive
    /\ stack = <<>>
    /\ calls < MaxCalls
    /\ calls' = calls + 1
    /\ IF state \notin Meta(cls, op).from_states THEN Reject(op) ELSE Enter(op)
    /\ UNCHANGED <<cls, reentered, status, def_error, alive, snap>>
    /\ UNCHANGED <<devars, tvars>>

\* the guarded body raises: line 51 propagates
BodyRaise(t) ==
    /\ stack # <<>>
    /\ Top.pc = "body"
    /\ Raise(Top, UserExc(t), "body")
    /\ events' = Append(events, Event("raised", t, state))
    /\ UNCHANGED <<cls, reentered, status, def_error, alive, state, lists, snap, calls>>
    /\ UNCHANGED <<devars, tvars>>

BodyReturn_CommitBeforeExit(r) ==
    /\ stack # <<>>
    /\ Top.pc = "body"
    /\ LET f == [Top EXCEPT !.result = r, !.body_result = r, !.old_state = state]
       IN /\ Commit(f)
          /\ IF f.old_state \in cls.on_exit
             THEN /\ stack' = ReplaceTop([f EXCEPT !.pc = "on_exit"])
                  /\ events' = (events \o CommitEvents(f))
                                  \o <<Event("on_exit", f.old_state, state')>>
                  /\ last' = last
             ELSE EnterLookup(f, events \o CommitEvents(f))
    /\ UNCHANGED <<cls, reentered, status, def_error, alive, snap, calls>>
    /\ UNCHANGED <<devars, tvars>>

\* the guarded body returns r: lines 51-58, and on to 60-69 when no
\* on_exit_<old_state> is defined
BodyReturn(r) ==
    /\ stack # <<>>
    /\ Top.pc = "body"
    /\ LET f == [Top EXCEPT !.result = r, !.body_result = r, !.old_state = state]
       IN IF f.old_state \in cls.on_exit
          THEN /\ stack' = ReplaceTop([f EXCEPT !.pc = "on_exit"])
               /\ events' = Append(events, Event("on_exit", f.old_state, state))
               /\ UNCHANGED <<state, lists, last>>
          ELSE /\ Commit(f)
               /\ EnterLookup(f, events \o CommitEvents(f))
    /\ UNCHANGED <<cls, reentered, status, def_error, alive, snap, calls>>
    /\ UNCHANGED <<devars, tvars>>

\* on_exit_<old_state> returns: lines 60-69
ExitHookReturn ==
    /\ stack # <<>>
    /\ Top.pc = "on_exit"
    /\ Commit(Top)
    /\ EnterLookup(Top, events \o CommitEvents(Top))
    /\ UNCHANGED <<cls, reentered, status, def_error, alive, snap, calls>>
    /\ UNCHANGED <<devars, tvars>>

ExitHookRaise_Commits(t) ==
    /\ stack # <<>>
    /\ Top.pc = "on_exit"
    /\ Raise(Top, UserExc(t), "on_exit")
    /\ events' = Append(events, Event("raised", t, state))
    /\ state' = Meta(cls, Top.op).to_state
    /\ UNCHANGED <<cls, reentered, status, def_error, alive, lists, snap, calls>>
    /\ UNCHANGED <<devars, tvars>>

\* on_exit_<old_state> raises: line 58 propagates
ExitHookRaise(t) ==
    /\ stack # <<>>
    /\ Top.pc = "on_exit"
    /\ Raise(Top, UserExc(t), "on_exit")
    /\ events' = Append(events, Event("raised", t, state))
    /\ UNCHANGED <<cls, reentered, status, def_error, alive, state, lists, snap, calls>>
    /\ UNCHANGED <<devars, tvars>>

\* on_enter_<to_state> returns: line 69
EnterHookReturn ==
    /\ stack # <<>>
    /\ Top.pc = "on_enter"
    /\ Return(Top)
    /\ UNCHANGED <<cls, reentered, status, def_error, alive, state, lists, snap, events, calls>>
    /\ UNCHANGED <<devars, tvars>>

EnterHookRaise_RollsBack(t) ==
    /\ stack # <<>>
    /\ Top.pc = "on_enter"
    /\ Raise(Top, UserExc(t), "on_enter")
    /\ events' = Append(events, Event("raised", t, state))
    /\ state' = Top.old_state
    /\ UNCHANGED <<cls, reentered, status, def_error, alive, lists, snap, calls>>
    /\ UNCHANGED <<devars, tvars>>

\* on_enter_<to_state> raises: line 67 propagates
EnterHookRaise(t) ==
    /\ stack # <<>>
    /\ Top.pc = "on_enter"
    /\ Raise(Top, UserExc(t), "on_enter")
    /\ events' = Append(events, Event("raised", t, state))
    /\ UNCHANGED <<cls, reentered, status, def_error, alive, state, lists, snap, calls>>
    /\ UNCHANGED <<devars, tvars>>

----------------------------------------------------------------------------
(* StateMachine.state_history, and what a caller does with the list it gets *)

state_history_NoCopy(heap) == [lists |-> heap, ref |-> 1]

\* list(self._state_history): a new list object with the same items; the
\* result is the heap after the call and the id of the returned list.  The
\* list returned by the previous retrieval is dropped by the caller.
state_history(heap) == [lists |-> <<heap[1], heap[1]>>, ref |-> 2]

GetHistory ==
    /\ alive
    /\ LET r == state_history(lists)
       IN /\ lists' = r.lists
          /\ snap' = r.ref
    /\ UNCHANGED <<cls, reentered, status, def_error, alive, state, stack, events, last, calls>>
    /\ UNCHANGED <<devars, tvars>>

Mutations == {"append", "clear", "overwrite"}

\* history.append("mutated") / history.clear() / history[0] = "mutated" on the returned list
MutateSnapshot(m) ==
    /\ snap # 0
    /\ CASE m = "append" ->
              /\ Len(lists[snap]) < MaxSnapLen
              /\ lists' = [lists EXCEPT ![snap] = Append(@, "mutated")]
         [] m = "clear" ->
              /\ lists[snap] # <<>>
              /\ lists' = [lists EXCEPT ![snap] = <<>>]
         [] m = "overwrite" ->
              /\ lists[snap] # <<>>
              /\ lists[snap][1] # "mutated"
              /\ lists' = [lists EXCEPT ![snap][1] = "mutated"]
    /\ UNCHANGED <<cls, reentered, status, def_error, alive, state, snap, stack, events, last, calls>>
    /\ UNCHANGED <<devars, tvars>>

----------------------------------------------------------------------------
(* Specifications *)

\* class definition, construction and guarded calls, one after another
Next ==
    \/ DefineClass
    \/ Construct
    \/ \E op \in Range(OpNames) : Call(op)
    \/ \E r \in BodyResults : BodyReturn(r)
    \/ \E t \in UserExceptions : BodyRaise(t)
    \/ ExitHookReturn
    \/ \E t \in UserExceptions : ExitHookRaise(t)
    \/ EnterHookReturn
    \/ \E t \in UserExceptions : EnterHookRaise(t)

Spec == Init /\ [][Next]_vars

\* the same, on well-formed classes, with a caller that retrieves the history
\* and mutates the lists it gets
HistoryDeclarations ==
    {d \in Declarations :
        /\ d.has_states
        /\ d.states = <<"pending", "paid", "shipped">>
        /\ d.initial_state = "pending"
        /\ d.ops["ship"] = [from_state |-> FromStr("paid"), to_state |-> "shipped"]}

InitHistory ==
    /\ cls \in HistoryDeclarations
    /\ status = "declared"
    /\ def_error = NoExc
    /\ alive = FALSE
    /\ state = Missing
    /\ lists = <<>>
    /\ snap = 0
    /\ stack = <<>>
    /\ events = <<>>
    /\ last = NoCall
    /\ calls = 0
    /\ reentered = FALSE
    /\ NoDecorators
    /\ NoTesting

NextHistory ==
    \/ Next
    \/ GetHistory
    \/ \E m \in Mutations : MutateSnapshot(m)

SpecHistory == InitHistory /\ [][NextHistory]_vars

----------------------------------------------------------------------------
(* Vocabulary of the properties *)

IsOp(x) == x \in Range(OpNames)

\* a guarded call has ended and no other has started
Done == stack = <<>> /\ IsOp(last.op)

Kinds(ev) == {ev[i].kind : i \in 1..Len(ev)}

IsPrefix(s, t) == Len(s) <= Len(t) /\ SubSeq(t, 1, Len(s)) = s

Target(op) == Meta(cls, op).to_state

Sources(op) == Meta(cls, op).from_states

\* the last thing a callback of the call did was to raise exception type t
Thrown(t) == events # <<>> /\ events[Len(events)] = Event("raised", t, state)

----------------------------------------------------------------------------
(* Properties of the guarded call *)

\* C1: a guarded operation called while the current state is not one of its
\* source states fails with InvalidTransitionError, and its body is never
\* invoked: a body (or hook) only ever runs for a call made in a source state.
C1_RejectedOutsideSources ==
    /\ \A i \in 1..Len(stack) : stack[i].pre_state \in Sources(stack[i].op)
    /\ (Done /\ last.pre_state \notin Sources(last.op)) =>
          /\ last.outcome = "raised"
          /\ last.exc.type = "InvalidTransitionError"
          /\ last.exc.via = last.op
          /\ "body" \notin Kinds(events)

C1_Witness ==
    /\ Done
    /\ last.pre_state \notin Sources(last.op)
    /\ last.exc.type = "InvalidTransitionError"
    /\ calls = 2

\* C2: a call rejected with a transition error leaves state and history as
\* they were when it was made and invokes neither hook.
C2_RejectedCallChangesNothing ==
    (Done /\ last.outcome = "raised" /\ last.exc.type = "InvalidTransitionError") =>
        /\ state = last.pre_state
        /\ StoredHistory = last.pre_history
        /\ events = <<>>

C2_Witness ==
    /\ Done
    /\ last.exc.type = "InvalidTransitionError"
    /\ cls.track_history
    /\ Len(StoredHistory) = 2
    /\ state \in cls.on_exit

\* C3: when the guarded body raises, that exception reaches the caller,
\* state and history are what they were before the call, and no hook ran.
C3_BodyRaiseChangesNothing ==
    (Done /\ last.origin = "body") =>
        /\ last.outcome = "raised"
        /\ Thrown(last.exc.type)
        /\ last.exc = UserExc(last.exc.type)
        /\ state = last.pre_state
        /\ StoredHistory = last.pre_history
        /\ Kinds(events) = {"body", "raised"}

C3_Witness ==
    /\ Done
    /\ last.origin = "body"
    /\ last.exc.type = "RuntimeError"
    /\ cls.track_history
    /\ state \in cls.on_exit
    /\ Target(last.op) \in cls.on_enter
    /\ Target(last.op) # state

\* C4: a guarded call that returns normally leaves the instance in the
\* operation's target state and returns what the body returned.
C4_SuccessReachesTarget ==
    (Done /\ last.outcome = "returned") =>
        /\ last.pre_state \in Sources(last.op)
        /\ state = Target(last.op)
        /\ last.value = last.body_result

C4_Witness ==
    /\ Done
    /\ last.outcome = "returned"
    /\ last.value = "receipt"
    /\ state # last.pre_state
    /\ state = Target(last.op)

\* the order of the steps of one call
EventRank(kind) ==
    CASE kind = "body" -> 1
      [] kind = "on_exit" -> 2
      [] kind = "assign" -> 3
      [] kind = "append" -> 4
      [] kind = "on_enter" -> 5
      [] kind = "raised" -> 6

\* the call the events belong to
CurOp == IF stack # <<>> THEN Top.op ELSE last.op

CurPre == IF stack # <<>> THEN Top.pre_state ELSE last.pre_state

\* C5: in every transition the steps happen in the order body, exit hook of
\* the old state (the instance reporting the old state), state assignment and
\* history append, enter hook of the new state (the instance reporting the new
\* state); a successful call has run the body, the assignment and every hook
\* that is defined for the old and the new state.
C5_StepOrder ==
    /\ \A i, j \in 1..Len(events) :
          i < j => EventRank(events[i].kind) < EventRank(events[j].kind)
    /\ \A i \in 1..Len(events) :
          /\ events[i].kind = "on_exit" =>
                events[i].key = CurPre /\ events[i].seen = CurPre
          /\ events[i].kind \in {"assign", "append", "on_enter"} =>
                events[i].key = Target(CurOp) /\ events[i].seen = Target(CurOp)
          /\ events[i].kind = "append" => cls.track_history
    /\ stack # <<>> =>
          /\ Top.pc = "on_exit" => state = Top.pre_state /\ StoredHistory = Top.pre_history
          /\ Top.pc = "on_enter" => state = Target(Top.op)
    /\ (Done /\ last.outcome = "returned") =>
          /\ {"body", "assign"} \subseteq Kinds(events)
          /\ "on_exit" \in Kinds(events) <=> last.pre_state \in cls.on_exit
          /\ "on_enter" \in Kinds(events) <=> Target(last.op) \in cls.on_enter
          /\ "append" \in Kinds(events) <=> cls.track_history

C5_Witness ==
    /\ Done
    /\ last.outcome = "returned"
    /\ Len(events) = 5
    /\ state # last.pre_state

\* C6 as claimed: whichever hook raises, the exception propagates and the
\* instance is left in the target state.
C6_HookFailureKeepsTarget ==
    (Done /\ last.origin \in {"on_exit", "on_enter"}) =>
        /\ last.outcome = "raised"
        /\ Thrown(last.exc.type)
        /\ state = Target(last.op)

\* C6 amended: a raising hook propagates its exception; after a raising enter
\* hook the instance is in the target state (and the history has the target
\* appended when tracked), after a raising exit hook state and history are
\* what they were before the call and the enter hook was not invoked.
C6_HookFailure ==
    /\ (Done /\ last.origin = "on_enter") =>
          /\ last.outcome = "raised"
          /\ Thrown(last.exc.type)
          /\ last.exc = UserExc(last.exc.type)
          /\ state = Target(last.op)
          /\ StoredHistory = IF cls.track_history
                             THEN Append(last.pre_history, Target(last.op))
                             ELSE <<>>
    /\ (Done /\ last.origin = "on_exit") =>
          /\ last.outcome = "raised"
          /\ Thrown(last.exc.type)
          /\ last.exc = UserExc(last.exc.type)
          /\ state = last.pre_state
          /\ StoredHistory = last.pre_history
          /\ Kinds(events) = {"body", "on_exit", "raised"}

C6_Witness ==
    /\ Done
    /\ last.origin = "on_enter"
    /\ last.outcome = "raised"
    /\ state = Target(last.op)
    /\ state # last.pre_state
    /\ cls.track_history

\* C7: the current state of an instance of an accepted class is always one of
\* the states the class declares.
C7_StateIsDeclared ==
    alive => state \in Range(cls.states)

\* C8: with tracking on, the history starts with the initial state, a call
\* that commits appends exactly the target state, a call that is rejected or
\* whose body raises appends nothing, and no step removes or rewrites entries.
C8_HistoryInv ==
    (alive /\ cls.track_history) =>
        /\ StoredHistory # <<>>
        /\ StoredHistory[1] = cls.initial_state
        /\ Len(StoredHistory) <= 1 + calls
        /\ Done =>
              /\ StoredHistory = IF "assign" \in Kinds(events)
                                 THEN Append(last.pre_history, Target(last.op))
                                 ELSE last.pre_history
              /\ last.origin \in {"guard", "body"} => StoredHistory = last.pre_history
              /\ last.outcome = "returned" => "assign" \in Kinds(events)

C8_HistoryStep ==
    /\ IsPrefix(StoredHistory, StoredHistory')
    /\ Len(StoredHistory') <= Len(StoredHistory) + 1
    /\ state' # state => (cls.track_history => StoredHistory' = Append(StoredHistory, state'))

C8_HistoryAppendOnly == [](C8_HistoryInv) /\ [][C8_HistoryStep]_vars

C8_Witness ==
    /\ Done
    /\ cls.track_history
    /\ Len(StoredHistory) = 3
    /\ StoredHistory[1] # StoredHistory[2]
    /\ StoredHistory[2] # StoredHistory[3]

\* C9: the list returned by state_history has the items of the stored history
\* and is a list of its own: appending to it, clearing it or overwriting an
\* item never changes the stored history, so a later retrieval is unaffected.
C9_RetrievalStep ==
    /\ GetHistory => (lists'[snap'] = StoredHistory /\ StoredHistory' = StoredHistory)
    /\ (\E m \in Mutations : MutateSnapshot(m)) => StoredHistory' = StoredHistory

C9_SnapshotIsolated == [][C9_RetrievalStep]_vars

C9_Witness ==
    /\ alive
    /\ cls.track_history
    /\ snap # 0
    /\ Len(StoredHistory) = 2
    /\ lists[snap] = <<"mutated", "mutated">>

\* C10: right after construction the state is the declared initial state and
\* the history is [initial] with tracking on; with tracking off the history is
\* empty then and after any calls.
C10_Construction ==
    /\ (alive /\ calls = 0) =>
          /\ state = cls.initial_state
          /\ StoredHistory = IF cls.track_history THEN <<cls.initial_state>> ELSE <<>>
    /\ (alive /\ ~cls.track_history) => StoredHistory = <<>>

C10_Witness ==
    /\ alive
    /\ ~cls.track_history
    /\ Done
    /\ state # cls.initial_state
    /\ calls = 2
    /\ StoredHistory = <<>>

----------------------------------------------------------------------------
(* Properties of class definition *)

\* the declaration lacks a non-empty `states` or an initial state drawn from it
IllFormed(c) ==
    \/ ~c.has_states
    \/ c.states = <<>>
    \/ c.initial_state = Missing
    \/ c.initial_state \notin Range(c.states)

\* C11: a class that does not declare a non-empty set of states together with
\* an initial state drawn from it is rejected with InvalidStateError when it
\* is defined, so it never has an instance.
C11_IllFormedRejected ==
    (status # "declared" /\ IllFormed(cls)) =>
        /\ status = "rejected"
        /\ def_error.type = "InvalidStateError"
        /\ ~alive

----------------------------------------------------------------------------
(* A machine class derived from a machine class *)

\* in the body of a derived class: the operation is not redefined
Inherit == [from_state |-> FromList(<<>>), to_state |-> Missing]

\* what the body of a derived class assigns; initial_state = Missing and
\* ops[op] = Inherit stand for attributes the body leaves to the base class
ChildBodies ==
    {b \in [has_states : BOOLEAN, states : StatesChoices, initial_state : InitialChoices,
            ops : [Range(OpNames) -> OpDecls \cup {Inherit}]] :
        /\ ~b.has_states => b.states = <<>>
        /\ b.ops["pay"] = Inherit}

\* the attributes hasattr / getattr / dir find on the derived class: its own,
\* then those of the base class
resolve(base, body) ==
    [has_states |-> body.has_states \/ base.has_states,
     states |-> IF body.has_states THEN body.states ELSE base.states,
     initial_state |-> IF body.initial_state # Missing THEN body.initial_state
                       ELSE base.initial_state,
     track_history |-> base.track_history,
     ops |-> [op \in Range(OpNames) |->
                 IF body.ops[op] = Inherit THEN base.ops[op] ELSE body.ops[op]],
     on_exit |-> base.on_exit,
     on_enter |-> base.on_enter]

\* base classes whose class statement succeeded
BaseDeclarations ==
    {d \in Declarations :
        /\ init_subclass(d) = NoExc
        /\ d.track_history
        /\ d.on_exit # {}
        /\ d.on_enter # {}
        /\ d.ops["ship"] = [from_state |-> FromStr("paid"), to_state |-> "shipped"]}

InitInherit ==
    /\ cls \in {resolve(base, body) : base \in BaseDeclarations, body \in ChildBodies}
    /\ status = "declared"
    /\ def_error = NoExc
    /\ alive = FALSE
    /\ state = Missing
    /\ lists = <<>>
    /\ snap = 0
    /\ stack = <<>>
    /\ events = <<>>
    /\ last = NoCall
    /\ calls = 0
    /\ reentered = FALSE
    /\ NoDecorators
    /\ NoTesting

SpecInherit == InitInherit /\ [][Next]_vars

\* some guarded operation visible on the class names a state the class does not declare
NamesOutside(c) ==
    \E op \in Range(OpNames) :
        \/ ~(Meta(c, op).from_states \subseteq Range(c.states))
        \/ Meta(c, op).to_state \notin Range(c.states)

\* C12: a class on which some guarded operation, its own or inherited, names a
\* source or target state outside the declared states is rejected with
\* InvalidStateError when it is defined; on every accepted class all source
\* and target names are declared states.
C12_UndeclaredNamesRejected ==
    /\ (status # "declared" /\ NamesOutside(cls)) =>
          (status = "rejected" /\ def_error.type = "InvalidStateError")
    /\ status = "accepted" => ~NamesOutside(cls)

----------------------------------------------------------------------------
(* The order machine: pending -> paid -> shipped *)

OrderDeclarations ==
    {d \in Declarations :
        /\ d.has_states
        /\ d.states = <<"pending", "paid", "shipped">>
        /\ d.initial_state = "pending"
        /\ d.track_history
        /\ d.ops["pay"] = [from_state |-> FromStr("pending"), to_state |-> "paid"]
        /\ d.ops["ship"] = [from_state |-> FromStr("paid"), to_state |-> "shipped"]}

InitOrder ==
    /\ cls \in OrderDeclarations
    /\ status = "declared"
    /\ def_error = NoExc
    /\ alive = FALSE
    /\ state = Missing
    /\ lists = <<>>
    /\ snap = 0
    /\ stack = <<>>
    /\ events = <<>>
    /\ last = NoCall
    /\ calls = 0
    /\ reentered = FALSE
    /\ NoDecorators
    /\ NoTesting

SpecOrder == InitOrder /\ [][Next]_vars

Rejected == last.outcome = "raised" /\ last.exc.type = "InvalidTransitionError"

\* C13: on the order machine, construct gives state pending; pay() then gives
\* paid with history [pending, paid]; ship() then gives shipped with history
\* [pending, paid, shipped]; a second ship() fails with a transition error
\* citing the valid source state paid, and state and history stay.
C13_OrderTrace ==
    /\ (alive /\ calls = 0) => (state = "pending" /\ StoredHistory = <<"pending">>)
    /\ (Done /\ calls = 1 /\ last.op = "pay") =>
          /\ ~Rejected
          /\ last.outcome = "returned" =>
                (state = "paid" /\ StoredHistory = <<"pending", "paid">>)
    /\ (Done /\ calls = 2 /\ last.op = "ship" /\ last.pre_history = <<"pending", "paid">>) =>
          /\ ~Rejected
          /\ last.outcome = "returned" =>
                (state = "shipped" /\ StoredHistory = <<"pending", "paid", "shipped">>)
    /\ (Done /\ calls = 3 /\ last.op = "ship"
             /\ last.pre_history = <<"pending", "paid", "shipped">>) =>
          /\ Rejected
          /\ last.exc.via = "ship"
          /\ last.exc.current = "shipped"
          /\ last.exc.expected = <<"paid">>
          /\ state = "shipped"
          /\ StoredHistory = <<"pending", "paid", "shipped">>

C13_Witness ==
    /\ Done
    /\ calls = 3
    /\ last.op = "ship"
    /\ Rejected
    /\ last.exc.expected = <<"paid">>
    /\ last.pre_history = <<"pending", "paid", "shipped">>
    /\ state = "shipped"
    /\ StoredHistory = <<"pending", "paid", "shipped">>

----------------------------------------------------------------------------
(* Error dispatch: handle_errors (specwright/decorators.py) *)

\* handler entries of a map
MaxHandlers == 2
\* calls made on the decorated callable
MaxWrappedCalls == 2

\* classes, each with its base class; "int" is a class that is no exception
ClassParent ==
    [BaseException |-> "object", Exception |-> "BaseException",
     ValueError |-> "Exception", RuntimeError |-> "Exception",
     SpecwrightError |-> "Exception", SpecError |-> "SpecwrightError",
     InputValidationError |-> "SpecError", OutputValidationError |-> "SpecError",
     HandlingStrategyError |-> "SpecwrightError", int |-> "object"]

\* isinstance(k, type)
IsType(k) == k \in DOMAIN ClassParent

RECURSIVE issubclass(_, _)
issubclass(t, u) ==
    IF t = u THEN TRUE
    ELSE IF t \notin DOMAIN ClassParent THEN FALSE
    ELSE issubclass(ClassParent[t], u)

\* isinstance(e, exc_type) for an exception e
isinstance(e, exc_type) == issubclass(e.type, exc_type)

\* Python values, written with their type; "ignore" and "log" are the two
\* strings _apply_strategy knows
TypeOf(v) ==
    CASE v = "None" -> "NoneType"
      [] v \in {"int:0", "int:1", "int:42"} -> "int"
      [] v \in {"bool:True", "bool:False"} -> "bool"
      [] v \in {"float:0.5", "float:1.0"} -> "float"
      [] v \in {"tuple", "dict"} -> v
      [] v \in {"ignore", "log", "str:fallback_value", "str:bad", "str:oops",
                "str:not_a_type", "str:handled"} -> "str"
      [] v \in {"handler_fn"} -> "function"
      [] OTHER -> "type"

callable(v) == TypeOf(v) \in {"function", "type"}

KeyChoices == {"Exception", "ValueError", "InputValidationError", "int", "str:not_a_type"}

StrategyChoices == {"ignore", "log", "handler_fn", "str:fallback_value", "int:0"}

HandlerEntries == [key : KeyChoices, strategy : StrategyChoices]

\* dicts of at most MaxHandlers entries: the keys are distinct
HandlerMaps ==
    {h \in UNION {[1..n -> HandlerEntries] : n \in 0..MaxHandlers} :
        \A i, j \in 1..Len(h) : i # j => h[i].key # h[j].key}

keys(h) == [i \in 1..Len(h) |-> h[i].key]

HandlingStrategyError(key) ==
    [NoExc EXCEPT !.type = "HandlingStrategyError", !.detail = key]

\* _validate_handlers: the first key, in order, that is not an exception type
RECURSIVE validate_handlers_from(_, _)
validate_handlers_from(h, i) ==
    IF i > Len(h) THEN NoExc
    ELSE IF ~IsType(h[i].key) \/ ~issubclass(h[i].key, "BaseException")
         THEN HandlingStrategyError(h[i].key)
    ELSE validate_handlers_from(h, i + 1)

validate_handlers_TypesOnly(h) ==
    LET bad == {i \in 1..Len(h) : ~IsType(h[i].key)}
    IN  IF bad = {} THEN NoExc
        ELSE HandlingStrategyError(h[CHOOSE i \in bad : \A j \in bad : i <= j].key)

validate_handlers(h) == validate_handlers_from(h, 1)

\* `except catchable as e`
caught(keyseq, e) == \E i \in 1..Len(keyseq) : isinstance(e, keyseq[i])

\* the loop of wrapper: index of the first entry whose type e is an instance of, 0 if none
RECURSIVE first_match_from(_, _, _)
first_match_from(h, e, i) ==
    IF i > Len(h) THEN 0
    ELSE IF isinstance(e, h[i].key) THEN i
    ELSE first_match_from(h, e, i + 1)

first_match_Last(h, e) ==
    LET M == {i \in 1..Len(h) : isinstance(e, h[i].key)}
    IN  IF M = {} THEN 0 ELSE CHOOSE i \in M : \A j \in M : j <= i

first_match(h, e) == first_match_from(h, e, 1)

LogRecord(qualname, e) == [qualname |-> qualname, exc |-> e, exc_info |-> TRUE]

apply_strategy_LogSuppresses(strategy, exception, func) ==
    IF strategy \in {"ignore", "log"}
    THEN [result |-> "None",
          logged |-> IF strategy = "log" THEN <<LogRecord(func, exception)>> ELSE <<>>]
    ELSE IF callable(strategy) THEN [result |-> "_CALL", logged |-> <<>>]
    ELSE [result |-> strategy, logged |-> <<>>]

\* _apply_strategy up to the point where a callable strategy is called:
\* result is "_RAISE", "_CALL" (strategy(exception) is to be called) or the value returned
apply_strategy(strategy, exception, func) ==
    IF strategy = "ignore" THEN [result |-> "None", logged |-> <<>>]
    ELSE IF strategy = "log"
         THEN [result |-> "_RAISE", logged |-> <<LogRecord(func, exception)>>]
    ELSE IF callable(strategy) THEN [result |-> "_CALL", logged |-> <<>>]
    ELSE [result |-> strategy, logged |-> <<>>]

----------------------------------------------------------------------------
(* The decorated callable: def fn(x: int) -> int, under handle_errors and spec *)

Hints == [x |-> "int", return |-> "int"]

StrictAccepts_Exact(hint, v) == TypeOf(v) = hint

StrictAccepts_BoolIsInt(hint, v) ==
    CASE hint = "int" -> TypeOf(v) \in {"int", "bool"}
      [] hint = "float" -> TypeOf(v) \in {"float", "int"}
      [] OTHER -> TypeOf(v) = hint

\* TypeAdapter(hint).validate_python(value, strict=True) succeeds
StrictAccepts(hint, v) ==
    CASE hint = "int" -> TypeOf(v) = "int"
      [] hint = "str" -> TypeOf(v) = "str"
      [] hint = "bool" -> TypeOf(v) = "bool"
      [] hint = "float" -> TypeOf(v) \in {"float", "int"}
      [] hint = "NoneType" -> TypeOf(v) = "NoneType"
      [] OTHER -> FALSE

ArgChoices == {"int:1", "str:bad"}

FnResults == {"int:42", "str:oops"}

StrategyResults == {"int:0", "str:handled"}

StrategyExceptions == {"RuntimeError"}

\* an exception of type t raised by the code named origin
Exc(t, origin) == [NoExc EXCEPT !.type = t, !.detail = origin]

InputValidationError(value) ==
    [NoExc EXCEPT !.type = "InputValidationError", !.detail = value]

OutputValidationError(result) ==
    [NoExc EXCEPT !.type = "OutputValidationError", !.detail = result]

Layers_HandleOutermost(nesting) ==
    IF nesting = "handle" THEN <<"handle", "fn">> ELSE <<"handle", "spec", "fn">>

Layers_SpecOutermost(nesting) ==
    IF nesting = "handle" THEN <<"handle", "fn">> ELSE <<"spec", "handle", "fn">>

\* the wrappers around fn, outermost first
Layers(nesting) ==
    CASE nesting = "handle" -> <<"handle", "fn">>
      [] nesting = "handle_over_spec" -> <<"handle", "spec", "fn">>
      [] nesting = "spec_over_handle" -> <<"spec", "handle", "fn">>
      [] OTHER -> <<"fn">>

WrappedChoices ==
    [nesting : {"handle", "handle_over_spec", "spec_over_handle"},
     validate_inputs : {TRUE}, validate_output : {TRUE}]

WrapperFrame(layer) == [layer |-> layer, exc |-> NoExc, idx |-> 0]

\* the wrapper is inside _apply_strategy, in strategy(exception) of entry idx
StrategyFrame(e, idx) == [layer |-> "strategy", exc |-> e, idx |-> idx]

Invoked(kind, idx, arg, e) == [kind |-> kind, idx |-> idx, arg |-> arg, exc |-> e]

\* what one step computes: frames left, outcome, log and events
Ctx(frames, out, log, ev) == [stack |-> frames, out |-> out, log |-> log, ev |-> ev]

\* an exception leaves a frame: the bare `raise` of wrapper, or no except clause for it
propagate_Swallowed(e) == Returned("None")

propagate(e) == Raised(e)

CTop(frames) == frames[Len(frames)]

CPop(frames) == SubSeq(frames, 1, Len(frames) - 1)

RECURSIVE Unwind(_, _)
\* the outcome out reaches the innermost frame of c.stack and goes outward
\* until the call is over or a callable strategy is called
Unwind(c, out) ==
    IF c.stack = <<>> THEN [c EXCEPT !.out = out]
    ELSE
        LET f == CTop(c.stack)
            rest == [c EXCEPT !.stack = CPop(c.stack)]
        IN  IF f.layer = "spec"
            THEN IF out.kind = "returned" /\ wrapped.validate_output
                                     /\ ~StrictAccepts(Hints.return, out.value)
                 THEN Unwind(rest, Raised(OutputValidationError(out.value)))
                 ELSE Unwind(rest, out)
            ELSE IF out.kind = "returned" THEN Unwind(rest, out)
            ELSE IF ~caught(catchable, out.exc) THEN Unwind(rest, propagate(out.exc))
            ELSE
                LET i == first_match(handlers, out.exc) IN
                IF i = 0 THEN Unwind(rest, propagate(out.exc))
                ELSE
                    LET r == apply_strategy(handlers[i].strategy, out.exc, "fn")
                        applied == [rest EXCEPT
                            !.log = c.log \o r.logged,
                            !.ev = Append(c.ev, Invoked("apply", i, "None", out.exc))]
                    IN  IF r.result = "_RAISE" THEN Unwind(applied, propagate(out.exc))
                        ELSE IF r.result = "_CALL"
                        THEN [applied EXCEPT
                                !.stack = Append(rest.stack, StrategyFrame(out.exc, i)),
                                !.ev = Append(applied.ev,
                                              Invoked("strategy", i, "None", out.exc))]
                        ELSE Unwind(applied, Returned(r.result))

RECURSIVE Descend(_, _, _, _)
\* the call enters the wrappers ls[i], ls[i+1], ... with argument arg
Descend(ls, i, arg, c) ==
    IF ls[i] = "fn"
    THEN [c EXCEPT !.stack = Append(c.stack, WrapperFrame("fn")),
                   !.ev = Append(c.ev, Invoked("fn", 0, arg, NoExc))]
    ELSE IF ls[i] = "spec" /\ wrapped.validate_inputs /\ ~StrictAccepts(Hints.x, arg)
    THEN Unwind(c, Raised(InputValidationError(arg)))
    ELSE Descend(ls, i + 1, arg, [c EXCEPT !.stack = Append(c.stack, WrapperFrame(ls[i]))])

\* the step c becomes the state of the call
Settle(c) ==
    /\ cstack' = c.stack
    /\ cout' = c.out
    /\ hlog' = c.log
    /\ hevents' = c.ev

\* the innermost frame ends: kind tells how, with value v or exception e
Ended(kind, v, e) ==
    Ctx(CPop(cstack), NoOutcome, hlog, Append(hevents, Invoked(kind, 0, v, e)))

InitDispatch ==
    /\ cls \in OrderDeclarations
    /\ cls.on_exit = {} /\ cls.on_enter = {}
    /\ status = "declared"
    /\ def_error = NoExc
    /\ alive = FALSE
    /\ state = Missing
    /\ lists = <<>>
    /\ snap = 0
    /\ stack = <<>>
    /\ events = <<>>
    /\ last = NoCall
    /\ calls = 0
    /\ reentered = FALSE
    /\ handlers \in HandlerMaps
    /\ catchable = <<>>
    /\ hstatus = "configured"
    /\ wrapped \in WrappedChoices
    /\ cargs = "None"
    /\ cstack = <<>>
    /\ cout = NoOutcome
    /\ hlog = <<>>
    /\ hevents = <<>>
    /\ dcalls = 0
    /\ fdef = [doc |-> "Doc.", return |-> Hints.return,
               params |-> <<[name |-> "x", kind |-> "positional_or_keyword",
                             hint |-> Hints.x]>>]
    /\ NoTesting

\* handle_errors(handlers): _validate_handlers, then catchable is taken
Decorate ==
    /\ hstatus = "configured"
    /\ LET err == validate_handlers(handlers) IN
         IF err # NoExc
         THEN /\ hstatus' = "rejected"
              /\ cout' = Raised(err)
              /\ UNCHANGED catchable
         ELSE /\ hstatus' = "decorated"
              /\ cout' = NoOutcome
              /\ catchable' = keys(handlers)
    /\ UNCHANGED <<handlers, wrapped, cargs, cstack, hlog, hevents, dcalls, fdef>>
    /\ UNCHANGED <<smvars, tvars>>

\* the decorated callable is called with one argument
CallWrapped(arg) ==
    /\ hstatus = "decorated"
    /\ cstack = <<>>
    /\ dcalls < MaxWrappedCalls
    /\ dcalls' = dcalls + 1
    /\ cargs' = arg
    /\ Settle(Descend(Layers(wrapped.nesting), 1, arg, Ctx(<<>>, NoOutcome, hlog, <<>>)))
    /\ UNCHANGED <<handlers, catchable, hstatus, wrapped, fdef>>
    /\ UNCHANGED <<smvars, tvars>>

\* fn returns v
FnReturn(v) ==
    /\ cstack # <<>>
    /\ CTop(cstack).layer = "fn"
    /\ Settle(Unwind(Ended("fn_returned", v, NoExc), Returned(v)))
    /\ UNCHANGED <<handlers, catchable, hstatus, wrapped, cargs, dcalls, fdef>>
    /\ UNCHANGED <<smvars, tvars>>

\* fn raises an exception of type t
FnRaise(t) ==
    /\ cstack # <<>>
    /\ CTop(cstack).layer = "fn"
    /\ Settle(Unwind(Ended("fn_raised", "None", Exc(t, "fn")), Raised(Exc(t, "fn"))))
    /\ UNCHANGED <<handlers, catchable, hstatus, wrapped, cargs, dcalls, fdef>>
    /\ UNCHANGED <<smvars, tvars>>

StrategyReturn_Discards(v) ==
    /\ cstack # <<>>
    /\ CTop(cstack).layer = "strategy"
    /\ Settle(Unwind(Ended("strategy_returned", v, NoExc), Returned("None")))
    /\ UNCHANGED <<handlers, catchable, hstatus, wrapped, cargs, dcalls, fdef>>
    /\ UNCHANGED <<smvars, tvars>>

\* strategy(exception) returns v: wrapper returns it
StrategyReturn(v) ==
    /\ cstack # <<>>
    /\ CTop(cstack).layer = "strategy"
    /\ Settle(Unwind(Ended("strategy_returned", v, NoExc), Returned(v)))
    /\ UNCHANGED <<handlers, catchable, hstatus, wrapped, cargs, dcalls, fdef>>
    /\ UNCHANGED <<smvars, tvars>>

StrategyRaise_KeepsOriginal(t) ==
    /\ cstack # <<>>
    /\ CTop(cstack).layer = "strategy"
    /\ Settle(Unwind(Ended("strategy_raised", "None", Exc(t, "strategy")),
                     Raised(CTop(cstack).exc)))
    /\ UNCHANGED <<handlers, catchable, hstatus, wrapped, cargs, dcalls, fdef>>
    /\ UNCHANGED <<smvars, tvars>>

\* strategy(exception) raises an exception of type t: it leaves wrapper
StrategyRaise(t) ==
    /\ cstack # <<>>
    /\ CTop(cstack).layer = "strategy"
    /\ Settle(Unwind(Ended("strategy_raised", "None", Exc(t, "strategy")),
                     Raised(Exc(t, "strategy"))))
    /\ UNCHANGED <<handlers, catchable, hstatus, wrapped, cargs, dcalls, fdef>>
    /\ UNCHANGED <<smvars, tvars>>

NextDispatch ==
    \/ Decorate
    \/ \E arg \in ArgChoices : CallWrapped(arg)
    \/ \E v \in FnResults : FnReturn(v)
    \/ \E t \in UserExceptions : FnRaise(t)
    \/ \E v \in StrategyResults : StrategyReturn(v)
    \/ \E t \in StrategyExceptions : StrategyRaise(t)

SpecDispatch == InitDispatch /\ [][NextDispatch]_vars

----------------------------------------------------------------------------
(* Properties of error dispatch *)

\* the call of the decorated callable is over
CallOver == cstack = <<>> /\ dcalls > 0

\* handle_errors is the outermost wrapper: its outcome is the caller's
HandleOutermost == Layers(wrapped.nesting)[1] = "handle"

\* the entries whose exception type e is an instance of
Matching(e) == {i \in 1..Len(handlers) : isinstance(e, handlers[i].key)}

Positions(kind) == {p \in 1..Len(hevents) : hevents[p].kind = kind}

\* C14: when the wrapped callable raises E and some handler entry's type is
\* E's type or a supertype of it, the strategy applied is that of the first
\* such entry in declaration order, and no later matching entry's strategy is
\* applied, even if its type is more specific.
C14_FirstMatchWins ==
    \A p \in Positions("fn_raised") :
        LET e == hevents[p].exc IN
        Matching(e) # {} =>
            /\ p < Len(hevents)
            /\ hevents[p + 1].kind = "apply"
            /\ hevents[p + 1].exc = e
            /\ \A q \in Positions("apply") :
                 /\ hevents[q].idx \in Matching(e)
                 /\ \A j \in Matching(e) : hevents[q].idx <= j

\* a broad entry declared before a narrower one, E an instance of both
C14_Witness ==
    /\ CallOver
    /\ Len(handlers) = 2
    /\ handlers[1].key # handlers[2].key
    /\ issubclass(handlers[2].key, handlers[1].key)
    /\ \E p \in Positions("fn_raised") :
         /\ Matching(hevents[p].exc) = {1, 2}
         /\ hevents[p + 1].kind = "apply"
         /\ hevents[p + 1].idx = 1

\* C15: an exception of the wrapped callable that is an instance of no handler
\* entry's type leaves the wrapper as it was raised and no strategy is applied;
\* a normal return of the wrapped callable is returned unchanged and no
\* strategy is applied.
C15_UnmatchedPassesThrough ==
    CallOver /\ HandleOutermost =>
        /\ \A p \in Positions("fn_raised") :
             Matching(hevents[p].exc) = {} =>
                /\ cout = Raised(hevents[p].exc)
                /\ Positions("apply") = {} /\ Positions("strategy") = {}
        /\ \A p \in Positions("fn_returned") :
             (wrapped.nesting = "handle" \/ StrictAccepts(Hints.return, hevents[p].arg)) =>
                /\ cout = Returned(hevents[p].arg)
                /\ Positions("apply") = {} /\ Positions("strategy") = {}

C15_Witness ==
    /\ CallOver /\ HandleOutermost
    /\ handlers # <<>>
    /\ \E p \in Positions("fn_raised") : Matching(hevents[p].exc) = {}
    /\ cout.kind = "raised"

\* entry q of hevents' was not there before the step
Fresh(q) == dcalls' # dcalls \/ q > Len(hevents)

\* C16: the step in which a "log" strategy is applied to E appends exactly one
\* record (qualified name, exception, trace) to the log and ends the call with
\* E raised: the call does not return normally.
C16_LogStep ==
    \A q \in 1..Len(hevents') :
        (/\ Fresh(q) /\ hevents'[q].kind = "apply"
         /\ handlers[hevents'[q].idx].strategy = "log") =>
            /\ hlog' = Append(hlog, LogRecord("fn", hevents'[q].exc))
            /\ cstack' = <<>>
            /\ cout' = Raised(hevents'[q].exc)

C16_LogReraises == [][C16_LogStep]_vars

C16_Witness ==
    /\ CallOver
    /\ \E q \in Positions("apply") :
         /\ handlers[hevents[q].idx].strategy = "log"
         /\ hlog = <<LogRecord("fn", hevents[q].exc)>>
         /\ cout = Raised(hevents[q].exc)

C18_StrategyFailureReplaces ==
    CallOver =>
        \A r \in Positions("strategy_raised") :
            /\ cout = Raised(hevents[r].exc)
            /\ \A q \in Positions("apply") : q < r /\ hevents[q].exc # cout.exc
            /\ Cardinality(Positions("apply")) = 1

\* the new exception is an instance of another entry's type
C18_Witness ==
    /\ CallOver
    /\ \E r \in Positions("strategy_raised") :
         /\ Matching(hevents[r].exc) # {}
         /\ cout = Raised(hevents[r].exc)

ExceptionTypes ==
    {"BaseException", "Exception", "ValueError", "RuntimeError", "SpecwrightError",
     "SpecError", "InputValidationError", "OutputValidationError",
     "HandlingStrategyError"}

\* C19: handle_errors(handlers) with a key that is not an exception type
\* raises HandlingStrategyError: no wrapper is made and no call takes place;
\* a map that is accepted has only exception types as keys.
C19_KeysAreExceptionTypes ==
    LET badkeys == {i \in 1..Len(handlers) : handlers[i].key \notin ExceptionTypes} IN
    /\ hstatus = "rejected" =>
          /\ badkeys # {}
          /\ cout.kind = "raised" /\ cout.exc.type = "HandlingStrategyError"
          /\ dcalls = 0 /\ cstack = <<>> /\ hevents = <<>> /\ catchable = <<>>
    /\ hstatus = "decorated" => badkeys = {}
    /\ (dcalls > 0 \/ cstack # <<>>) => hstatus = "decorated"

C19_Witness ==
    /\ hstatus = "rejected"
    /\ \E i \in 1..Len(handlers) : handlers[i].key = "int"
    /\ \A i \in 1..Len(handlers) : handlers[i].key # "str:not_a_type"

\* the contract violations of the call: the argument against the parameter's
\* hint, what fn returned against the return hint
Violations ==
    (IF wrapped.validate_inputs /\ ~StrictAccepts(Hints.x, cargs)
     THEN {InputValidationError(cargs)} ELSE {})
    \cup {OutputValidationError(hevents[p].arg) : p \in
            {p \in Positions("fn_returned") :
                wrapped.validate_output /\ ~StrictAccepts(Hints.return, hevents[p].arg)}}

\* C20: with handle_errors applied outside spec, an input or output contract
\* violation is dispatched like any other exception: the first entry whose
\* type it is an instance of is applied to it, and when there is none it
\* reaches the caller as it was raised and no strategy is applied.
C20_ViolationsDispatched ==
    CallOver /\ wrapped.nesting = "handle_over_spec" =>
        \A e \in Violations :
            IF Matching(e) = {}
            THEN cout = Raised(e) /\ Positions("apply") = {}
            ELSE \E q \in Positions("apply") :
                    /\ Positions("apply") = {q}
                    /\ hevents[q].exc = e
                    /\ hevents[q].idx \in Matching(e)
                    /\ \A j \in Matching(e) : hevents[q].idx <= j
                    /\ handlers[hevents[q].idx].strategy \notin {"log", "handler_fn"}
                          => cout.kind = "returned"

\* an input violation taken by an entry for a supertype, fn never called
C20_Witness ==
    /\ CallOver /\ wrapped.nesting = "handle_over_spec"
    /\ InputValidationError(cargs) \in Violations
    /\ Positions("fn") = {}
    /\ \E q \in Positions("apply") :
         /\ hevents[q].exc = InputValidationError(cargs)
         /\ handlers[hevents[q].idx].key = "Exception"
    /\ cout.kind = "returned"

\* the values the dispatch wrapper returned: what fn returned, or what the
\* strategy applied at q produced
Produced ==
    {hevents[p].arg : p \in Positions("fn_returned")}
    \cup UNION {LET s == handlers[hevents[q].idx].strategy IN
                  IF s = "ignore" THEN {"None"}
                  ELSE IF s = "log" THEN {}
                  ELSE IF callable(s)
                       THEN {hevents[r].arg : r \in Positions("strategy_returned")}
                  ELSE {s} : q \in Positions("apply")}

\* C21: with handle_errors applied inside spec, the value a strategy produces
\* (None of "ignore", a literal, what a callable returned) is checked against
\* the return hint like a value fn returned: a value of another type ends the
\* call with OutputValidationError, a value of the declared type is returned.
C21_StrategyValueValidated ==
    CallOver /\ wrapped.nesting = "spec_over_handle" =>
        \A v \in Produced :
            IF wrapped.validate_output /\ TypeOf(v) # Hints.return
            THEN cout = Raised(OutputValidationError(v))
            ELSE cout = Returned(v)

C21_Witness ==
    /\ CallOver /\ wrapped.nesting = "spec_over_handle"
    /\ \E q \in Positions("apply") :
         handlers[hevents[q].idx].strategy = "str:fallback_value"
    /\ cout = Raised(OutputValidationError("str:fallback_value"))

----------------------------------------------------------------------------
(* The type contract: spec (specwright/decorators.py, specwright/validation.py) *)

\* positional arguments of a call
MaxArgs == 2

\* _SKIP_PARAMS
SKIP_PARAMS == {"self", "cls"}

\* the names of the parameters that are not receiver or variadic
ParamNames == <<"x", "y">>

Param(name, kind, hint) == [name |-> name, kind |-> kind, hint |-> hint]

\* func.__doc__: None, empty, blank, or a text
DocChoices == {Missing, "", "   ", "Adds."}

\* str.strip on the docstrings
strip(doc) == IF doc \in {"", "   "} THEN "" ELSE doc

HintChoices == {Missing, "int", "float"}

\* a parameter list: an optional receiver, named parameters, an optional variadic one
ParamLists ==
    {receiver \o named \o variadic :
        receiver \in {<<>>, <<Param("self", "positional_or_keyword", Missing)>>},
        named \in UNION {{[i \in 1..n |-> Param(ParamNames[i], "positional_or_keyword", h[i])] :
                            h \in [1..n -> HintChoices]} : n \in 0..Len(ParamNames)},
        variadic \in {<<>>, <<Param("args", "var_positional", Missing)>>,
                      <<Param("args", "var_positional", "int")>>,
                      <<Param("kwargs", "var_keyword", "int")>>}}

Functions == [doc : DocChoices, params : ParamLists, return : HintChoices]

\* the errors of the contract decorator: names lists what is reported, cause is __cause__
ContractError(type, detail, names, cause) ==
    [type |-> type, detail |-> detail, names |-> names, cause |-> cause]

NoError == ContractError("", "", <<>>, "")

validate_docstring_NoneOnly(func) ==
    IF func.doc = Missing
    THEN ContractError("MissingDocstringError", "missing a docstring", <<>>, "")
    ELSE NoError

\* validate_docstring: `not func.__doc__ or not func.__doc__.strip()`
validate_docstring(func) ==
    IF func.doc = Missing \/ func.doc = "" \/ strip(func.doc) = ""
    THEN ContractError("MissingDocstringError", "missing a docstring", <<>>, "")
    ELSE NoError

\* get_type_hints(func): the annotated names
hints(func) ==
    {func.params[i].name : i \in {i \in 1..Len(func.params) : func.params[i].hint # Missing}}
    \cup (IF func.return # Missing THEN {"return"} ELSE {})

HintOf(func, name) ==
    IF name = "return" THEN func.return
    ELSE LET i == CHOOSE i \in 1..Len(func.params) : func.params[i].name = name
         IN  func.params[i].hint

NamesOf(ps) == [i \in 1..Len(ps) |-> ps[i].name]

\* the names validate_type_hints collects in `missing`
missing_hints(func) ==
    LET Unannotated(p) ==
            /\ p.name \notin SKIP_PARAMS
            /\ p.kind \notin {"var_positional", "var_keyword"}
            /\ p.name \notin hints(func)
    IN  NamesOf(SelectSeq(func.params, Unannotated))
        \o (IF "return" \notin hints(func) THEN <<"return">> ELSE <<>>)

validate_type_hints_FirstOnly(func) ==
    IF missing_hints(func) # <<>>
    THEN ContractError("MissingTypeHintError", "missing type hints",
                       <<missing_hints(func)[1]>>, "")
    ELSE NoError

validate_type_hints(func) ==
    IF missing_hints(func) # <<>>
    THEN ContractError("MissingTypeHintError", "missing type hints", missing_hints(func), "")
    ELSE NoError

ArgValues == {"int:1", "bool:True", "float:0.5"}

\* a call: positional arguments and at most one keyword argument, y=1
CallChoices ==
    [args : UNION {[1..n -> ArgValues] : n \in 0..MaxArgs},
     kwargs : {<<>>, <<[name |-> "y", value |-> "int:1"]>>}]

IsRegular(p) == p.kind = "positional_or_keyword"

HasKind(func, kind) == \E i \in 1..Len(func.params) : func.params[i].kind = kind

\* position of name among the parameters that take one argument, 0 if none
RegularIndex(func, name) ==
    LET R == SelectSeq(func.params, IsRegular)
    IN  IF \E i \in 1..Len(R) : R[i].name = name
        THEN CHOOSE i \in 1..Len(R) : R[i].name = name
        ELSE 0

\* sig.bind(*args, **kwargs) raises TypeError
bind_fails(func, call) ==
    LET R == SelectSeq(func.params, IsRegular)
        kw == {call.kwargs[i].name : i \in 1..Len(call.kwargs)}
    IN  \/ Len(call.args) > Len(R) /\ ~HasKind(func, "var_positional")
        \/ \E k \in kw : RegularIndex(func, k) \in 1..Len(call.args)
        \/ \E k \in kw : RegularIndex(func, k) = 0 /\ ~HasKind(func, "var_keyword")
        \/ \E i \in 1..Len(R) : i > Len(call.args) /\ R[i].name \notin kw

\* bound.arguments after apply_defaults, in parameter order; the variadic
\* parameters are bound to a tuple and a dict
bound_arguments(func, call) ==
    [i \in 1..Len(func.params) |->
        LET p == func.params[i]
            j == RegularIndex(func, p.name)
        IN  [name |-> p.name,
             value |-> IF p.kind = "var_positional" THEN "tuple"
                       ELSE IF p.kind = "var_keyword" THEN "dict"
                       ELSE IF j <= Len(call.args) THEN call.args[j]
                       ELSE call.kwargs[1].value]]

\* the lines validate_inputs collects in `errors`
input_errors(func, call) ==
    LET Mismatch(a) ==
            /\ a.name \notin SKIP_PARAMS
            /\ a.name \in hints(func)
            /\ ~StrictAccepts(HintOf(func, a.name), a.value)
        bad == SelectSeq(bound_arguments(func, call), Mismatch)
    IN  [i \in 1..Len(bad) |->
            [name |-> bad[i].name, expected |-> HintOf(func, bad[i].name),
             got |-> TypeOf(bad[i].value), value |-> bad[i].value]]

validate_inputs_BindingUnwrapped(func, call) ==
    IF bind_fails(func, call)
    THEN ContractError("TypeError", "fn", <<>>, "")
    ELSE IF input_errors(func, call) # <<>>
    THEN ContractError("InputValidationError", "Input validation failed",
                       input_errors(func, call), "")
    ELSE NoError

validate_inputs(func, call) ==
    IF bind_fails(func, call)
    THEN ContractError("InputValidationError", "Argument binding failed", <<>>, "TypeError")
    ELSE IF input_errors(func, call) # <<>>
    THEN ContractError("InputValidationError", "Input validation failed",
                       input_errors(func, call), "")
    ELSE NoError

validate_output(func, result) ==
    IF "return" \notin hints(func) THEN NoError
    ELSE IF ~StrictAccepts(func.return, result)
    THEN ContractError("OutputValidationError", "Output validation failed",
                       <<[name |-> "return", expected |-> func.return,
                          got |-> TypeOf(result), value |-> result]>>, "")
    ELSE NoError

\* calls made on the contract-validated callable
MaxSpecCalls == 1

\* the arguments of @spec(...): every choice of the two validation options,
\* and the docstring requirement lifted under the default ones
SpecOptions ==
    {o \in [nesting : {"spec"}, validate_inputs : BOOLEAN, validate_output : BOOLEAN,
            require_docstring : BOOLEAN] :
        ~o.require_docstring => o.validate_inputs /\ o.validate_output}

ResultValues == {"int:42", "float:0.5", "bool:True"}

InitContract ==
    /\ cls \in OrderDeclarations
    /\ cls.on_exit = {} /\ cls.on_enter = {}
    /\ status = "declared"
    /\ def_error = NoExc
    /\ alive = FALSE
    /\ state = Missing
    /\ lists = <<>>
    /\ snap = 0
    /\ stack = <<>>
    /\ events = <<>>
    /\ last = NoCall
    /\ calls = 0
    /\ reentered = FALSE
    /\ handlers = <<>>
    /\ catchable = <<>>
    /\ hstatus = "configured"
    /\ wrapped \in SpecOptions
    /\ cargs = "None"
    /\ cstack = <<>>
    /\ cout = NoOutcome
    /\ hlog = <<>>
    /\ hevents = <<>>
    /\ dcalls = 0
    /\ fdef \in Functions
    /\ NoTesting

\* spec(...)(fn): the checks of decorator, lines 95-99
decoration_error(func, options) ==
    IF options.require_docstring /\ validate_docstring(func) # NoError
    THEN validate_docstring(func)
    ELSE validate_type_hints(func)

\* @spec is applied to the function
SpecDecorate ==
    /\ hstatus = "configured"
    /\ LET err == decoration_error(fdef, wrapped) IN
         IF err # NoError
         THEN hstatus' = "rejected" /\ cout' = Raised(err)
         ELSE hstatus' = "decorated" /\ cout' = NoOutcome
    /\ UNCHANGED <<handlers, catchable, wrapped, cargs, cstack, hlog, hevents, dcalls, fdef>>
    /\ UNCHANGED <<smvars, tvars>>

check_inputs_Never(func, options, call) == NoError

\* check_inputs of wrapper, lines 103-104
check_inputs(func, options, call) ==
    IF options.validate_inputs THEN validate_inputs(func, call) ELSE NoError

check_output_Always(func, options, result) == validate_output(func, result)

\* check_output of wrapper, lines 106-107
check_output(func, options, result) ==
    IF options.validate_output THEN validate_output(func, result) ELSE NoError

\* the decorated callable is called: wrapper up to fn(*args, **kwargs), where
\* Python itself raises TypeError for arguments fn cannot take
SpecCall(call) ==
    /\ hstatus = "decorated"
    /\ wrapped.nesting = "spec"
    /\ cstack = <<>>
    /\ dcalls < MaxSpecCalls
    /\ dcalls' = dcalls + 1
    /\ cargs' = call
    /\ LET err == check_inputs(fdef, wrapped, call) IN
         IF err # NoError
         THEN cstack' = <<>> /\ hevents' = <<>> /\ cout' = Raised(err)
         ELSE IF bind_fails(fdef, call)
         THEN /\ cstack' = <<>> /\ hevents' = <<>>
              /\ cout' = Raised(ContractError("TypeError", "fn", <<>>, ""))
         ELSE /\ cstack' = <<WrapperFrame("spec"), WrapperFrame("fn")>>
              /\ hevents' = <<Invoked("fn", 0, call, NoExc)>>
              /\ cout' = NoOutcome
    /\ UNCHANGED <<handlers, catchable, hstatus, wrapped, hlog, fdef>>
    /\ UNCHANGED <<smvars, tvars>>

\* fn returns result: wrapper checks it and returns it
SpecBodyReturn(result) ==
    /\ cstack # <<>>
    /\ CTop(cstack).layer = "fn"
    /\ wrapped.nesting = "spec"
    /\ LET err == check_output(fdef, wrapped, result) IN
         cout' = IF err # NoError THEN Raised(err) ELSE Returned(result)
    /\ cstack' = <<>>
    /\ hevents' = Append(hevents, Invoked("fn_returned", 0, result, NoExc))
    /\ UNCHANGED <<handlers, catchable, hstatus, wrapped, cargs, hlog, dcalls, fdef>>
    /\ UNCHANGED <<smvars, tvars>>

\* fn raises an exception of type t: it leaves wrapper
SpecBodyRaise(t) ==
    /\ cstack # <<>>
    /\ CTop(cstack).layer = "fn"
    /\ wrapped.nesting = "spec"
    /\ cout' = Raised(ContractError(t, "fn", <<>>, ""))
    /\ cstack' = <<>>
    /\ hevents' = Append(hevents, Invoked("fn_raised", 0, "None", NoExc))
    /\ UNCHANGED <<handlers, catchable, hstatus, wrapped, cargs, hlog, dcalls, fdef>>
    /\ UNCHANGED <<smvars, tvars>>

NextContract ==
    \/ SpecDecorate
    \/ \E call \in CallChoices : SpecCall(call)
    \/ \E result \in ResultValues : SpecBodyReturn(result)
    \/ \E t \in UserExceptions : SpecBodyRaise(t)

SpecContract == InitContract /\ [][NextContract]_vars

----------------------------------------------------------------------------
(* Properties of the type contract *)

\* the docstring is absent, empty or whitespace only
BlankDoc == fdef.doc \in {Missing, "", "   "}

\* the docstring check does not stop the decoration
DocAccepted == ~(wrapped.require_docstring /\ BlankDoc)

\* the names that must be annotated and are not
Undeclared ==
    {fdef.params[i].name : i \in {i \in 1..Len(fdef.params) :
        /\ fdef.params[i].hint = Missing
        /\ fdef.params[i].name \notin {"self", "cls"}
        /\ fdef.params[i].kind = "positional_or_keyword"}}
    \cup (IF fdef.return = Missing THEN {"return"} ELSE {})

\* position of a name in the declaration, the return annotation last
DeclPos(n) ==
    IF n = "return" THEN Len(fdef.params) + 1
    ELSE CHOOSE i \in 1..Len(fdef.params) : fdef.params[i].name = n

\* C22: applying spec with require_docstring to a function whose docstring is
\* absent or blank raises MissingDocstringError: the function is not wrapped
\* and no call takes place; without require_docstring the same function, its
\* annotations being complete, is decorated.
C22_DocstringRequired ==
    /\ (hstatus # "configured" /\ BlankDoc) =>
          IF wrapped.require_docstring
          THEN /\ hstatus = "rejected"
               /\ cout.kind = "raised" /\ cout.exc.type = "MissingDocstringError"
               /\ dcalls = 0 /\ cstack = <<>> /\ hevents = <<>>
          ELSE Undeclared = {} => hstatus = "decorated"
    /\ (dcalls > 0 \/ cstack # <<>>) => hstatus = "decorated"

C22_Witness ==
    /\ hstatus = "rejected"
    /\ fdef.doc = "   "
    /\ Undeclared = {}
    /\ cout.exc.type = "MissingDocstringError"

\* C23: applying spec to a function with an undeclared type (the docstring
\* check passed) raises MissingTypeHintError, which lists every unannotated
\* parameter that is neither receiver nor variadic, in declaration order, and
\* then 'return' if the return type is undeclared; it lists nothing else.
C23_AllMissingHintsListed ==
    (hstatus # "configured" /\ DocAccepted /\ Undeclared # {}) =>
        /\ hstatus = "rejected"
        /\ cout.kind = "raised" /\ cout.exc.type = "MissingTypeHintError"
        /\ dcalls = 0 /\ cstack = <<>>
        /\ LET names == cout.exc.names IN
             /\ Range(names) = Undeclared
             /\ \A i, j \in 1..Len(names) : i < j => DeclPos(names[i]) < DeclPos(names[j])

\* two names missing, next to an unannotated receiver and an unannotated *args
C23_Witness ==
    /\ hstatus = "rejected"
    /\ cout.exc.type = "MissingTypeHintError"
    /\ Len(cout.exc.names) >= 2
    /\ \E i \in 1..Len(fdef.params) : fdef.params[i].name = "self"
    /\ \E i \in 1..Len(fdef.params) :
         fdef.params[i].kind = "var_positional" /\ fdef.params[i].hint = Missing

\* a call has been made, its arguments could be bound to the parameters
Called == dcalls > 0 /\ ~bind_fails(fdef, cargs)

Regulars == {i \in 1..Len(fdef.params) : fdef.params[i].kind = "positional_or_keyword"}

\* the argument the call gives to the i-th parameter
ArgOf(i) == IF i <= Len(cargs.args) THEN cargs.args[i] ELSE cargs.kwargs[1].value

\* the arguments the call gives to the variadic parameter i
ExtrasOf(i) ==
    IF fdef.params[i].kind = "var_positional"
    THEN {cargs.args[k] : k \in {k \in 1..Len(cargs.args) : k \notin Regulars}}
    ELSE {cargs.kwargs[k].value : k \in {k \in 1..Len(cargs.kwargs) :
            \A j \in Regulars : fdef.params[j].name # cargs.kwargs[k].name}}

\* the parameters for which the call gives a value that is not of the declared type
Mismatched ==
    {i \in 1..Len(fdef.params) :
        /\ fdef.params[i].hint # Missing
        /\ fdef.params[i].name \notin {"self", "cls"}
        /\ IF i \in Regulars THEN ~StrictAccepts(fdef.params[i].hint, ArgOf(i))
           ELSE \E v \in ExtrasOf(i) : ~StrictAccepts(fdef.params[i].hint, v)}

\* C24: a call with one or more arguments that are not of the declared type
\* ends with one InputValidationError whose lines name exactly the mismatched
\* parameters, one line each, with the declared type and the type found.
C24_EveryMismatchNamed ==
    (Called /\ wrapped.validate_inputs /\ Mismatched # {}) =>
        /\ cout.kind = "raised" /\ cout.exc.type = "InputValidationError"
        /\ hevents = <<>>
        /\ LET lines == cout.exc.names IN
             /\ {lines[k].name : k \in 1..Len(lines)} = {fdef.params[i].name : i \in Mismatched}
             /\ Len(lines) = Cardinality(Mismatched)
             /\ \A k \in 1..Len(lines) :
                  /\ lines[k].expected = HintOf(fdef, lines[k].name)
                  /\ lines[k].got = TypeOf(lines[k].value)

AnnotatedVariadic ==
    \E i \in 1..Len(fdef.params) : i \notin Regulars /\ fdef.params[i].hint # Missing

\* C25: a call that gives True or False to a parameter declared int ends with
\* InputValidationError with a line for that parameter; fn is not called.
C25_BoolRejectedForInt ==
    (Called /\ wrapped.validate_inputs) =>
        \A i \in Regulars :
            (fdef.params[i].hint = "int" /\ TypeOf(ArgOf(i)) = "bool") =>
                /\ cout.kind = "raised" /\ cout.exc.type = "InputValidationError"
                /\ \E k \in 1..Len(cout.exc.names) :
                     /\ cout.exc.names[k].name = fdef.params[i].name
                     /\ cout.exc.names[k].expected = "int"
                     /\ cout.exc.names[k].got = "bool"
                /\ hevents = <<>>

\* the bool is the only argument that is not of the declared type
C25_Witness ==
    /\ Called /\ wrapped.validate_inputs
    /\ \E i \in Regulars :
         /\ fdef.params[i].hint = "int" /\ ArgOf(i) = "bool:True"
         /\ Mismatched = {i}
    /\ cout.kind = "raised"

\* fn was called once, with the arguments of the call
InvokedOnce == Positions("fn") = {1} /\ hevents[1].arg = cargs

\* C26: a call whose arguments are all of the declared types calls fn once
\* with the same arguments, and when fn returns a value of the declared
\* return type the call returns that value.
C26_MatchingCallPassesThrough ==
    (Called /\ Mismatched = {}) =>
        /\ InvokedOnce
        /\ \A p \in Positions("fn_returned") :
             StrictAccepts(fdef.return, hevents[p].arg) => cout = Returned(hevents[p].arg)

\* C27: with validate_output, a value fn returns that is not of the declared
\* return type ends the call with OutputValidationError; without
\* validate_output what fn returns is returned, whatever its type.
C27_OutputValidation ==
    \A p \in Positions("fn_returned") :
        LET result == hevents[p].arg IN
        IF wrapped.validate_output
        THEN ~StrictAccepts(fdef.return, result) =>
                /\ cout.kind = "raised" /\ cout.exc.type = "OutputValidationError"
                /\ cout.exc.names[1].expected = fdef.return
                /\ cout.exc.names[1].got = TypeOf(result)
        ELSE cout = Returned(result)

C27_Witness ==
    /\ ~wrapped.validate_output
    /\ \E p \in Positions("fn_returned") :
         /\ ~StrictAccepts(fdef.return, hevents[p].arg)
         /\ cout = Returned(hevents[p].arg)

\* a call has been made with arguments that cannot be bound to the parameters
Unbindable == dcalls > 0 /\ bind_fails(fdef, cargs)

\* C28 as claimed: whatever the options of spec, a call whose arguments cannot
\* be bound ends with the InputValidationError of a binding failure, which
\* carries the TypeError of the binding, and fn is not called.
C28_UnbindableIsViolation ==
    Unbindable =>
        /\ cout.kind = "raised" /\ cout.exc.type = "InputValidationError"
        /\ cout.exc.detail = "Argument binding failed" /\ cout.exc.cause = "TypeError"
        /\ hevents = <<>>

\* C28: with validate_inputs, a call whose arguments cannot be bound ends with
\* the InputValidationError of a binding failure carrying the TypeError of the
\* binding; without validate_inputs nothing is bound and the call ends with
\* the TypeError Python raises for calling fn; in both cases fn does not run.
C28_Unbindable ==
    Unbindable =>
        /\ cout.kind = "raised"
        /\ hevents = <<>> /\ cstack = <<>>
        /\ IF wrapped.validate_inputs
           THEN /\ cout.exc.type = "InputValidationError"
                /\ cout.exc.detail = "Argument binding failed"
                /\ cout.exc.cause = "TypeError"
                /\ cout.exc.names = <<>>
           ELSE cout.exc.type = "TypeError"

\* too many positional arguments under validate_inputs
C28_Witness ==
    /\ Unbindable /\ wrapped.validate_inputs
    /\ Len(cargs.args) > Cardinality(Regulars)
    /\ cout.exc.cause = "TypeError"

NumericKinds == {"int", "float"}

\* C29 as claimed: a value of one numeric kind is a mismatch for a declaration
\* of the other numeric kind, as an argument and as a returned value.
C29_NoWideningNoNarrowing ==
    /\ (Called /\ wrapped.validate_inputs) =>
          \A i \in Regulars :
              (/\ fdef.params[i].hint \in NumericKinds
               /\ TypeOf(ArgOf(i)) \in NumericKinds \ {fdef.params[i].hint}) =>
                  /\ cout.kind = "raised" /\ cout.exc.type = "InputValidationError"
                  /\ \E k \in 1..Len(cout.exc.names) :
                       cout.exc.names[k].name = fdef.params[i].name
    /\ wrapped.validate_output =>
          \A p \in Positions("fn_returned") :
              (/\ fdef.return \in NumericKinds
               /\ TypeOf(hevents[p].arg) \in NumericKinds \ {fdef.return}) =>
                  cout.kind = "raised" /\ cout.exc.type = "OutputValidationError"

\* the lines of the InputValidationError of the call, if it ended with one
InputLines ==
    IF cout.kind = "raised" /\ cout.exc.type = "InputValidationError"
    THEN {cout.exc.names[k].name : k \in 1..Len(cout.exc.names)}
    ELSE {}

\* C29: validation does not narrow: a float where int is declared is a
\* mismatch, as an argument and as a returned value; it does widen an int to
\* float: an int where float is declared is accepted, it is named in no
\* InputValidationError and as a returned value it is returned.
C29_NoNarrowing ==
    /\ (Called /\ wrapped.validate_inputs) =>
          \A i \in Regulars :
              /\ (fdef.params[i].hint = "int" /\ TypeOf(ArgOf(i)) = "float") =>
                    fdef.params[i].name \in InputLines
              /\ (fdef.params[i].hint = "float" /\ TypeOf(ArgOf(i)) = "int") =>
                    fdef.params[i].name \notin InputLines
    /\ wrapped.validate_output =>
          \A p \in Positions("fn_returned") :
              /\ (fdef.return = "int" /\ TypeOf(hevents[p].arg) = "float") =>
                    cout.kind = "raised" /\ cout.exc.type = "OutputValidationError"
              /\ (fdef.return = "float" /\ TypeOf(hevents[p].arg) = "int") =>
                    cout = Returned(hevents[p].arg)

\* an int given for a float parameter and an int returned for float
C29_Witness ==
    /\ Called /\ wrapped.validate_inputs /\ wrapped.validate_output
    /\ \E i \in Regulars : fdef.params[i].hint = "float" /\ TypeOf(ArgOf(i)) = "int"
    /\ fdef.return = "float"
    /\ cout = Returned("int:42")

----------------------------------------------------------------------------
(* The test requirements: requires_tests and its registry (specwright/testing.py) *)

\* functions decorated by requires_tests
MaxDeclarations == 2
\* snapshots taken with get_registry
MaxSnapshots == 1

FunctionNames == {"create_user", "parse"}

\* TestRequirements(...), built on lines 91-98
TestRequirements(function_name, happy_path, edge_cases, error_cases) ==
    [function_name |-> function_name, qualname |-> function_name,
     happy_path |-> happy_path, edge_cases |-> edge_cases, error_cases |-> error_cases]

\* the declarations: @requires_tests(happy_path, edge_cases, error_cases) on a function
RequirementChoices ==
    {TestRequirements(f, h, e, r) :
        f \in FunctionNames, h \in BOOLEAN,
        e \in {<<>>, <<"empty_input", "long_name">>}, r \in {<<"invalid_email">>}}

\* _registry
registry == rlists[1]

InitRegistry ==
    /\ cls \in OrderDeclarations
    /\ cls.on_exit = {} /\ cls.on_enter = {}
    /\ status = "declared"
    /\ def_error = NoExc
    /\ alive = FALSE
    /\ state = Missing
    /\ lists = <<>>
    /\ snap = 0
    /\ stack = <<>>
    /\ events = <<>>
    /\ last = NoCall
    /\ calls = 0
    /\ reentered = FALSE
    /\ NoDecorators
    /\ NoTesting

RequiresTests_Replaces(reqs) ==
    /\ Len(rfuncs) < MaxDeclarations
    /\ rfuncs' = Append(rfuncs, reqs)
    /\ rlists' = [rlists EXCEPT ![1] = <<reqs>>]
    /\ UNCHANGED <<rsnap, rout, tnames, pout>>
    /\ UNCHANGED <<smvars, devars>>

\* requires_tests(...)(func): the wrapper gets __test_requirements__ and the
\* requirements are appended to _registry
RequiresTests(reqs) ==
    /\ Len(rfuncs) < MaxDeclarations
    /\ rfuncs' = Append(rfuncs, reqs)
    /\ rlists' = [rlists EXCEPT ![1] = Append(@, reqs)]
    /\ UNCHANGED <<rsnap, rout, tnames, pout>>
    /\ UNCHANGED <<smvars, devars>>

\* a decorated function is called: wrapper returns func(*args, **kwargs)
CallRequired(i, v) ==
    /\ i \in 1..Len(rfuncs)
    /\ rout' = [fn |-> i, value |-> v]
    /\ UNCHANGED <<rlists, rsnap, rfuncs, tnames, pout>>
    /\ UNCHANGED <<smvars, devars>>

get_registry_NoCopy(heap) == [heap |-> heap, id |-> 1]

\* get_registry: list(_registry) is a new list object
get_registry(heap) == [heap |-> Append(heap, heap[1]), id |-> Len(heap) + 1]

\* the caller takes a snapshot
GetRegistry ==
    /\ Len(rlists) <= MaxSnapshots
    /\ LET r == get_registry(rlists) IN
         /\ rlists' = r.heap
         /\ rsnap' = r.id
    /\ UNCHANGED <<rfuncs, rout, tnames, pout>>
    /\ UNCHANGED <<smvars, devars>>

RegistryMutations == {"clear", "pop", "append"}

\* the caller changes the list it got from get_registry
MutateRegistrySnapshot(m) ==
    /\ rsnap # 0
    /\ LET l == rlists[rsnap] IN
         CASE m = "clear" -> l # <<>> /\ rlists' = [rlists EXCEPT ![rsnap] = <<>>]
           [] m = "pop" ->
                l # <<>> /\ rlists' = [rlists EXCEPT ![rsnap] = SubSeq(l, 1, Len(l) - 1)]
           [] m = "append" ->
                /\ Len(l) < MaxSnapLen
                /\ rlists' = [rlists EXCEPT ![rsnap] =
                                Append(l, TestRequirements("bogus", FALSE, <<>>, <<>>))]
    /\ UNCHANGED <<rsnap, rfuncs, rout, tnames, pout>>
    /\ UNCHANGED <<smvars, devars>>

NextRegistry ==
    \/ \E reqs \in RequirementChoices : RequiresTests(reqs)
    \/ \E i \in 1..MaxDeclarations, v \in BodyResults : CallRequired(i, v)
    \/ GetRegistry
    \/ \E m \in RegistryMutations : MutateRegistrySnapshot(m)

SpecRegistry == InitRegistry /\ [][NextRegistry]_vars

----------------------------------------------------------------------------
(* Properties of the registry *)

\* C30: a step that decorates a function appends its requirements to the
\* registry, after the entries that were there; any other step (a call of a
\* decorated function, get_registry, a change of a list get_registry returned)
\* leaves the registry as it is; the list get_registry returns holds the
\* entries of the registry.
C30_Step ==
    /\ Len(rfuncs') = Len(rfuncs) + 1 =>
          registry' = Append(registry, rfuncs'[Len(rfuncs')])
    /\ Len(rfuncs') # Len(rfuncs) + 1 => registry' = registry
    /\ rsnap' # rsnap => rlists'[rsnap'] = registry

----------------------------------------------------------------------------
(* The required test names, and the pytest plugin that looks for them      *)
(* (specwright/testing.py, specwright/pytest_plugin.py)                    *)

\* the names of one group of cases, in the order of the tuple
case_names(self, cases) ==
    [i \in 1..Len(cases) |-> ("test_" \o self.function_name) \o ("_" \o cases[i])]

expected_test_names_ErrorsFirst(self) ==
    (case_names(self, self.error_cases) \o case_names(self, self.edge_cases))
        \o (IF self.happy_path
            THEN <<("test_" \o self.function_name) \o "_happy_path">> ELSE <<>>)

\* TestRequirements.expected_test_names
expected_test_names(self) ==
    ((IF self.happy_path
      THEN <<("test_" \o self.function_name) \o "_happy_path">> ELSE <<>>)
        \o case_names(self, self.edge_cases))
        \o case_names(self, self.error_cases)

\* a caller reads func.__test_requirements__.expected_test_names
ExpectedTestNames(i) ==
    /\ i \in 1..Len(rfuncs)
    /\ tnames' = [fn |-> i, names |-> expected_test_names(rfuncs[i])]
    /\ UNCHANGED <<rlists, rsnap, rfuncs, rout, pout>>
    /\ UNCHANGED <<smvars, devars>>

\* sorted() on the qualified names
QualnameOrder == <<"create_user", "parse">>

\* lines 42-79: what the hook saw (registry, collected_names), how it ended and
\* the lines of the report it raised or warned with
pytest_collection_modifyitems(enforcement, heap, items) ==
    LET snapshot == get_registry(heap)
        reg == snapshot.heap[snapshot.id]
        collected_names == {it.name : it \in {x \in items : x.is_function}}
        missing(reqs) == SelectSeq(expected_test_names(reqs),
                                   LAMBDA name : name \notin collected_names)
        \* missing_by_func[reqs.qualname] = missing, in registry order
        stored == {i \in 1..Len(reg) : missing(reg[i]) # <<>>}
        keyset == {reg[i].qualname : i \in stored}
        missing_by_func == [q \in keyset |->
            missing(reg[CHOOSE i \in stored :
                          /\ reg[i].qualname = q
                          /\ \A j \in stored : reg[j].qualname = q => j <= i])]
        entry(q) == <<("  " \o q) \o ":">>
                    \o [k \in 1..Len(missing_by_func[q]) |-> "    - " \o missing_by_func[q][k]]
        RECURSIVE lines(_)
        lines(k) == IF k > Len(QualnameOrder) THEN <<>>
                    ELSE (IF QualnameOrder[k] \in keyset THEN entry(QualnameOrder[k]) ELSE <<>>)
                         \o lines(k + 1)
        seen == [enforcement |-> enforcement, registry |-> reg,
                 collected_names |-> collected_names, outcome |-> "returned", report |-> <<>>]
    IN IF enforcement = "off"
       THEN [seen EXCEPT !.registry = <<>>, !.collected_names = {}]
       ELSE IF reg = <<>> THEN [seen EXCEPT !.collected_names = {}]
       ELSE IF keyset = {} THEN seen
       ELSE [seen EXCEPT !.report = <<"Missing required tests:">> \o lines(1),
                         !.outcome = IF enforcement = "strict" THEN "MissingTestsError"
                                     ELSE "warned"]

\* pytest calls the hook after collection
CollectionModifyItems(enforcement, items) ==
    /\ pout' = pytest_collection_modifyitems(enforcement, rlists, items)
    /\ UNCHANGED <<rlists, rsnap, rfuncs, rout, tnames>>
    /\ UNCHANGED <<smvars, devars>>

NextPlugin ==
    \/ \E reqs \in RequirementChoices : RequiresTests(reqs)
    \/ \E i \in 1..MaxDeclarations : ExpectedTestNames(i)
    \* the items pytest collected: is_function is isinstance(item, pytest.Function)
    \/ \E enforcement \in {"strict", "warn", "off"},
          items \in SUBSET {[name |-> "test_parse_happy_path", is_function |-> TRUE],
                            [name |-> "test_parse_invalid_email", is_function |-> TRUE],
                            [name |-> "test_parse_empty_input", is_function |-> FALSE],
                            [name |-> "test_create_user_invalid_email", is_function |-> TRUE]} :
          CollectionModifyItems(enforcement, items)

SpecPlugin == InitRegistry /\ [][NextPlugin]_vars

----------------------------------------------------------------------------
(* Properties of the required test names *)

\* C31: the names a read of expected_test_names returns are those of the
\* declaration and no others: as many as the declaration has cases (plus one
\* when a happy-path test is required), test_<function>_happy_path first when
\* it is required, then test_<function>_<case> for the edge cases in the order
\* they were declared, then the same for the error cases.
C31_ExpectedTestNames ==
    tnames.fn # 0 =>
        LET reqs == rfuncs[tnames.fn]
            names == tnames.names
            hp == IF reqs.happy_path THEN 1 ELSE 0
            ne == Len(reqs.edge_cases)
            prefix == "test_" \o reqs.function_name
        IN /\ Len(names) = (hp + ne) + Len(reqs.error_cases)
           /\ reqs.happy_path => names[1] = prefix \o "_happy_path"
           /\ ~reqs.happy_path => \A k \in 1..Len(names) : names[k] # prefix \o "_happy_path"
           /\ \A k \in 1..ne : names[hp + k] = (prefix \o "_") \o reqs.edge_cases[k]
           /\ \A k \in 1..Len(reqs.error_cases) :
                 names[(hp + ne) + k] = (prefix \o "_") \o reqs.error_cases[k]

\* the names of a declaration with a happy path, two edge cases and an error case
C31_Witness ==
    /\ tnames.fn = 2
    /\ tnames.names = <<"test_parse_happy_path", "test_parse_empty_input",
                        "test_parse_long_name", "test_parse_invalid_email">>

----------------------------------------------------------------------------
(* Properties of the pytest plugin *)

\* the line of the report for a missing test name
ReportLine(name) == "    - " \o name

\* the required names the hook did not find among the collected names
MissingNames ==
    {n \in UNION {Range(expected_test_names(pout.registry[i])) : i \in 1..Len(pout.registry)} :
        n \notin pout.collected_names}

\* C32: after a run of the hook with enforcement not off, every required name
\* of every registry entry that is not among the collected names has a line in
\* the report, no collected name has one, and in strict mode the run ends with
\* MissingTestsError when a name is missing; whatever the registry holds.
C32_MissingNamesReported ==
    pout.enforcement \in {"strict", "warn"} =>
        /\ \A n \in MissingNames : ReportLine(n) \in Range(pout.report)
        /\ \A n \in pout.collected_names : ReportLine(n) \notin Range(pout.report)
        /\ (pout.enforcement = "strict" /\ MissingNames # {}) =>
               pout.outcome = "MissingTestsError"

----------------------------------------------------------------------------
(* Two callers on one instance, without mutual exclusion                   *)
(* (transition.decorator.wrapper, lines 42-69, run by several threads)     *)
(*                                                                         *)
(* stack holds the wrapper frame of every call in progress, one per        *)
(* caller; any of them takes the next step.  events records the start and  *)
(* the end of every call.                                                  *)

\* callers that share the instance, one guarded call each
MaxCallers == 2

\* the frames in progress without frame k
Others(k) == SubSeq(stack, 1, k - 1) \o SubSeq(stack, k + 1, Len(stack))

\* the call of frame k ends: it returns its result or lets exception e out
ThreadEnd(k, f, outcome, e, origin) ==
    /\ stack' = Others(k)
    /\ events' = Append(events, Event(outcome, f.op, state))
    /\ last' = [NoCall EXCEPT !.op = f.op, !.outcome = outcome, !.exc = e, !.origin = origin,
                              !.value = IF outcome = "returned" THEN f.result ELSE "None",
                              !.pre_state = f.pre_state, !.pre_history = f.pre_history,
                              !.body_result = f.body_result]

ThreadCall_NoGuard(op) ==
    /\ alive
    /\ calls < MaxCallers
    /\ calls' = calls + 1
    /\ stack' = Append(stack, Frame(op, state, StoredHistory))
    /\ events' = Append(events, Event("call", op, state))
    /\ UNCHANGED <<cls, reentered, status, def_error, alive, state, lists, snap, last>>
    /\ UNCHANGED <<devars, tvars>>

\* lines 42-51: a caller calls a guarded operation; the check of line 43 reads
\* the state as it is now, and the body is entered when it passes
ThreadCall(op) ==
    /\ alive
    /\ calls < MaxCallers
    /\ calls' = calls + 1
    /\ IF state \notin Meta(cls, op).from_states
       THEN /\ events' = events \o <<Event("call", op, state), Event("rejected", op, state)>>
            /\ last' = [NoCall EXCEPT !.op = op, !.outcome = "raised", !.origin = "guard",
                             !.exc = InvalidTransitionError(state, Meta(cls, op).to_state, op,
                                                            sorted(Meta(cls, op).from_states)),
                             !.pre_state = state, !.pre_history = StoredHistory]
            /\ UNCHANGED stack
       ELSE /\ stack' = Append(stack, Frame(op, state, StoredHistory))
            /\ events' = Append(events, Event("call", op, state))
            /\ UNCHANGED last
    /\ UNCHANGED <<cls, reentered, status, def_error, alive, state, lists, snap>>
    /\ UNCHANGED <<devars, tvars>>

\* lines 51-58: the body of frame k returns r; old_state is read now
ThreadBodyReturn(k, r) ==
    /\ k \in 1..Len(stack)
    /\ stack[k].pc = "body"
    /\ stack' = [stack EXCEPT ![k] =
                    [@ EXCEPT !.result = r, !.body_result = r, !.old_state = state,
                              !.pc = IF state \in cls.on_exit THEN "on_exit" ELSE "assign"]]
    /\ UNCHANGED <<cls, reentered, status, def_error, alive, state, lists, snap, events, last, calls>>
    /\ UNCHANGED <<devars, tvars>>

\* the body or a hook of frame k raises: lines 51, 58, 67 propagate
ThreadCallbackRaise(k, t) ==
    /\ k \in 1..Len(stack)
    /\ stack[k].pc \in {"body", "on_exit", "on_enter"}
    /\ ThreadEnd(k, stack[k], "raised", UserExc(t), stack[k].pc)
    /\ UNCHANGED <<cls, reentered, status, def_error, alive, state, lists, snap, calls>>
    /\ UNCHANGED <<devars, tvars>>

\* a hook of frame k returns: on to line 60 after on_exit, to line 69 after on_enter
ThreadHookReturn(k) ==
    /\ k \in 1..Len(stack)
    /\ stack[k].pc \in {"on_exit", "on_enter"}
    /\ IF stack[k].pc = "on_exit"
       THEN /\ stack' = [stack EXCEPT ![k].pc = "assign"]
            /\ UNCHANGED <<events, last>>
       ELSE ThreadEnd(k, stack[k], "returned", NoExc, "")
    /\ UNCHANGED <<cls, reentered, status, def_error, alive, state, lists, snap, calls>>
    /\ UNCHANGED <<devars, tvars>>

\* line 60: frame k assigns the target state
ThreadAssign(k) ==
    /\ k \in 1..Len(stack)
    /\ stack[k].pc = "assign"
    /\ state' = Meta(cls, stack[k].op).to_state
    /\ stack' = [stack EXCEPT ![k].pc = "append"]
    /\ UNCHANGED <<cls, reentered, status, def_error, alive, lists, snap, events, last, calls>>
    /\ UNCHANGED <<devars, tvars>>

\* lines 62-69: frame k appends the target to a tracked history, then calls
\* on_enter_<to_state> or returns
ThreadAppend(k) ==
    /\ k \in 1..Len(stack)
    /\ stack[k].pc = "append"
    /\ LET meta == Meta(cls, stack[k].op)
       IN /\ lists' = IF cls.track_history
                      THEN [lists EXCEPT ![1] = Append(@, meta.to_state)]
                      ELSE lists
          /\ IF meta.to_state \in cls.on_enter
             THEN /\ stack' = [stack EXCEPT ![k].pc = "on_enter"]
                  /\ UNCHANGED <<events, last>>
             ELSE ThreadEnd(k, stack[k], "returned", NoExc, "")
    /\ UNCHANGED <<cls, reentered, status, def_error, alive, state, snap, calls>>
    /\ UNCHANGED <<devars, tvars>>

NextConcurrent ==
    \/ DefineClass
    \/ Construct
    \/ \E op \in Range(OpNames) : ThreadCall(op)
    \/ \E k \in 1..MaxCallers, r \in BodyResults : ThreadBodyReturn(k, r)
    \/ \E k \in 1..MaxCallers, t \in UserExceptions : ThreadCallbackRaise(k, t)
    \/ \E k \in 1..MaxCallers : ThreadHookReturn(k)
    \/ \E k \in 1..MaxCallers : ThreadAssign(k)
    \/ \E k \in 1..MaxCallers : ThreadAppend(k)

SpecConcurrent == InitHistory /\ [][NextConcurrent]_vars

----------------------------------------------------------------------------
(* Properties of concurrent callers *)

\* how many of the first n events are of one of the kinds
Count(kinds, n) == Cardinality({i \in 1..n : events[i].kind \in kinds})

\* the callers serialize their calls: a call starts only when every call
\* started before it has ended
Serialized ==
    \A i \in 1..Len(events) :
        events[i].kind = "call" =>
            Count({"call"}, i - 1) = Count({"returned", "raised", "rejected"}, i - 1)

\* the two calls made are calls of one operation whose target state is not
\* one of its source states
SameOneWayOp ==
    /\ calls = 2
    /\ \E op \in Range(OpNames) :
          /\ Target(op) \notin Sources(op)
          /\ \A i \in 1..Len(events) : events[i].key = op

\* C33: two callers call, on one instance, one operation whose target state is
\* not one of its source states.  When the callers serialize the two calls, at
\* most one of them returns and the target is committed at most once; two
\* returns mean that the second call passed the check of the source state
\* before the first one had assigned the target.
C33_SerializedAtMostOnce ==
    (SameOneWayOp /\ Serialized) =>
        /\ Count({"returned"}, Len(events)) <= 1
        /\ Len(StoredHistory) <= 2

\* without mutual exclusion both calls of pay (pending -> paid) passed the
\* check, both bodies ran, both calls returned, and paid was appended twice
C33_Witness ==
    /\ Meta(cls, "pay") = TransitionMeta({"pending"}, "paid")
    /\ calls = 2
    /\ stack = <<>>
    /\ ~Serialized
    /\ \A i \in 1..Len(events) : events[i].key = "pay"
    /\ Count({"returned"}, Len(events)) = 2
    /\ state = "paid"
    /\ StoredHistory = <<"pending", "paid", "paid">>

----------------------------------------------------------------------------
(* A guarded transition around a contract-validated operation:             *)
(*     @transition(from_state=..., to_state=...)                           *)
(*     @spec(...)                                                          *)
(*     def pay(self, x: int) -> int                                        *)
(* The method the transition wrapper calls on line 51 is the wrapper of    *)
(* spec (decorators.py lines 102-109).                                     *)

InitGuarded ==
    /\ cls \in OrderDeclarations
    /\ status = "declared"
    /\ def_error = NoExc
    /\ alive = FALSE
    /\ state = Missing
    /\ lists = <<>>
    /\ snap = 0
    /\ stack = <<>>
    /\ events = <<>>
    /\ last = NoCall
    /\ calls = 0
    /\ reentered = FALSE
    /\ handlers = <<>>
    /\ catchable = <<>>
    /\ hstatus = "decorated"
    /\ wrapped \in SpecOptions
    /\ cargs = "None"
    /\ cstack = <<>>
    /\ cout = NoOutcome
    /\ hlog = <<>>
    /\ hevents = <<>>
    /\ dcalls = 0
    /\ fdef = [doc |-> "Adds.",
               params |-> <<Param("self", "positional_or_keyword", Missing),
                            Param("x", "positional_or_keyword", "int")>>,
               return |-> "int"]
    /\ NoTesting

\* sm.op(v): the transition wrapper checks the state (lines 43-49), then calls
\* the wrapper of spec with (self, v), which checks the arguments and calls fn
GuardedSpecCall(op, v) ==
    /\ alive
    /\ stack = <<>>
    /\ calls < MaxCalls
    /\ calls' = calls + 1
    /\ cargs' = v
    /\ LET call == [args |-> <<"self", v>>, kwargs |-> <<>>]
           err == check_inputs(fdef, wrapped, call)
       IN IF state \notin Meta(cls, op).from_states
          THEN /\ Reject(op)
               /\ cout' = NoOutcome
               /\ hevents' = <<>>
          ELSE IF err # NoError
          THEN /\ last' = [NoCall EXCEPT !.op = op, !.outcome = "raised", !.origin = "body",
                                !.exc = UserExc(err.type),
                                !.pre_state = state, !.pre_history = StoredHistory]
               /\ events' = <<Event("body", op, state), Event("raised", err.type, state)>>
               /\ cout' = Raised(err)
               /\ hevents' = <<>>
               /\ UNCHANGED <<stack, state, lists>>
          ELSE /\ Enter(op)
               /\ cout' = NoOutcome
               /\ hevents' = <<Invoked("fn", 0, call, NoExc)>>
    /\ UNCHANGED <<cls, reentered, status, def_error, alive, snap>>
    /\ UNCHANGED <<handlers, catchable, hstatus, wrapped, cstack, hlog, dcalls, fdef>>
    /\ UNCHANGED tvars

\* fn returns result: the wrapper of spec checks it (lines 106-108); a result
\* that fails leaves both wrappers as OutputValidationError, any other is the
\* result of line 51 and the transition wrapper goes on with lines 54-69
GuardedSpecReturn(result) ==
    /\ stack # <<>>
    /\ Top.pc = "body"
    /\ hevents' = Append(hevents, Invoked("fn_returned", 0, result, NoExc))
    /\ LET err == check_output(fdef, wrapped, result)
           f == [Top EXCEPT !.result = result, !.body_result = result, !.old_state = state]
       IN IF err # NoError
          THEN /\ Raise(Top, UserExc(err.type), "body")
               /\ events' = Append(events, Event("raised", err.type, state))
               /\ cout' = Raised(err)
               /\ UNCHANGED <<state, lists>>
          ELSE /\ cout' = Returned(result)
               /\ IF f.old_state \in cls.on_exit
                  THEN /\ stack' = ReplaceTop([f EXCEPT !.pc = "on_exit"])
                       /\ events' = Append(events, Event("on_exit", f.old_state, state))
                       /\ UNCHANGED <<state, lists, last>>
                  ELSE /\ Commit(f)
                       /\ EnterLookup(f, events \o CommitEvents(f))
    /\ UNCHANGED <<cls, reentered, status, def_error, alive, snap, calls>>
    /\ UNCHANGED <<handlers, catchable, hstatus, wrapped, cargs, cstack, hlog, dcalls, fdef>>
    /\ UNCHANGED tvars

\* fn raises an exception of type t: it leaves both wrappers
GuardedSpecRaise(t) ==
    /\ stack # <<>>
    /\ Top.pc = "body"
    /\ Raise(Top, UserExc(t), "body")
    /\ events' = Append(events, Event("raised", t, state))
    /\ cout' = Raised(ContractError(t, "fn", <<>>, ""))
    /\ hevents' = Append(hevents, Invoked("fn_raised", 0, "None", NoExc))
    /\ UNCHANGED <<cls, reentered, status, def_error, alive, state, lists, snap, calls>>
    /\ UNCHANGED <<handlers, catchable, hstatus, wrapped, cargs, cstack, hlog, dcalls, fdef>>
    /\ UNCHANGED tvars

NextGuarded ==
    \/ DefineClass
    \/ Construct
    \/ \E op \in Range(OpNames), v \in ArgValues : GuardedSpecCall(op, v)
    \/ \E result \in ResultValues : GuardedSpecReturn(result)
    \/ \E t \in UserExceptions : GuardedSpecRaise(t)
    \/ ExitHookReturn
    \/ \E t \in UserExceptions : ExitHookRaise(t)
    \/ EnterHookReturn
    \/ \E t \in UserExceptions : EnterHookRaise(t)

SpecGuarded == InitGuarded /\ [][NextGuarded]_vars

----------------------------------------------------------------------------
(* Properties of the guarded, contract-validated operation *)

\* C34: a call of a guarded operation whose wrapped callable validates its
\* inputs, made in an allowed source state with an argument that does not
\* match x: int, ends with InputValidationError; fn was not invoked, no hook
\* was called, nothing was assigned or appended, and state and history are
\* what they were before the call.
C34_MismatchChangesNothing ==
    (/\ Done
     /\ wrapped.validate_inputs
     /\ last.pre_state \in Sources(last.op)
     /\ ~StrictAccepts("int", cargs)) =>
        /\ last.outcome = "raised"
        /\ last.exc.type = "InputValidationError"
        /\ cout.kind = "raised"
        /\ cout.exc.type = "InputValidationError"
        /\ hevents = <<>>
        /\ Kinds(events) = {"body", "raised"}
        /\ state = last.pre_state
        /\ StoredHistory = last.pre_history

\* after pay(1) moved the instance to paid, ship(True) is refused by the
\* contract on a class that has hooks for the states involved
C34_Witness ==
    /\ Done
    /\ calls = 2
    /\ wrapped.validate_inputs
    /\ last.op = "ship"
    /\ cargs = "bool:True"
    /\ last.pre_state = "paid"
    /\ last.exc.type = "InputValidationError"
    /\ cls.on_exit # {} /\ cls.on_enter # {}
    /\ state = "paid"
    /\ StoredHistory = <<"pending", "paid">>

----------------------------------------------------------------------------
(* Properties of the declared source states *)

\* C35: every guarded operation of an accepted machine class has at least
\* one allowed source state: a class with an operation declared with
\* from_state=[] is not accepted.
C35_SourcesNotEmpty ==
    status = "accepted" => \A op \in Range(OpNames) : Sources(op) # {}

----------------------------------------------------------------------------
(* The caller keeps the dict it passed to handle_errors and changes it     *)
(* after decoration (handle_errors, decorators.py lines 175-190: the       *)
(* wrapper iterates handlers.items() of that same dict on line 184)        *)

\* handlers[key] = strategy on an existing key, del handlers[key], or
\* handlers[new_key] = strategy with an exception type as the new key, done
\* between two calls of the decorated callable
MutateHandlers(m) ==
    /\ hstatus = "decorated"
    /\ cstack = <<>>
    /\ CASE m = "replace" ->
              \E i \in 1..Len(handlers), s \in StrategyChoices :
                  /\ s # handlers[i].strategy
                  /\ handlers' = [handlers EXCEPT ![i].strategy = s]
         [] m = "remove" ->
              \E i \in 1..Len(handlers) :
                  handlers' = SubSeq(handlers, 1, i - 1) \o SubSeq(handlers, i + 1, Len(handlers))
         [] m = "add" ->
              \E e \in HandlerEntries :
                  /\ Len(handlers) < MaxHandlers
                  /\ \A i \in 1..Len(handlers) : handlers[i].key # e.key
                  /\ validate_handlers(<<e>>) = NoExc
                  /\ handlers' = Append(handlers, e)
    /\ UNCHANGED <<catchable, hstatus, wrapped, cargs, cstack, cout, hlog, hevents, dcalls, fdef>>
    /\ UNCHANGED <<smvars, tvars>>

NextMutable ==
    \/ NextDispatch
    \/ \E m \in {"replace", "remove", "add"} : MutateHandlers(m)

\* handle_errors alone around fn
InitMutable ==
    /\ InitDispatch
    /\ wrapped.nesting = "handle"

\* with a caller that changes the dict
SpecMutable == InitMutable /\ [][NextMutable]_vars

----------------------------------------------------------------------------
(* Properties of the handler map after decoration *)

\* what the wrapper does with an exception of type t that fn raises: it lets
\* it out, or applies the strategy of an entry
Disposition(t) ==
    LET e == Exc(t, "fn")
        i == first_match(handlers, e)
    IN IF ~caught(catchable, e) \/ i = 0 THEN "<propagates>" ELSE handlers[i].strategy

\* C36: once handle_errors has been applied, no step changes what the wrapper
\* does with an exception: a step that adds, removes or replaces an entry of
\* the dict that was passed leaves, for every exception type, the same
\* exceptions handled and the same strategy applied.
C36_HandlerMapFixed ==
    [][hstatus = "decorated" =>
          \A t \in UserExceptions : Disposition(t)' = Disposition(t)]_vars

----------------------------------------------------------------------------
(* Properties of variadic parameters *)

\* C37: for a decorated function with an annotated *args or **kwargs, a call
\* that validates its inputs and whose arguments are all of the declared
\* types (the extra ones of the element type of the variadic parameter) does
\* not end in the input check: fn is called once with the arguments of the call.
C37_VariadicsExempt ==
    (Called /\ wrapped.validate_inputs /\ AnnotatedVariadic /\ Mismatched = {}) =>
        /\ InvokedOnce
        /\ ~(cout.kind = "raised" /\ cout.exc.type = "InputValidationError")

----------------------------------------------------------------------------
(* Guarded calls made on the same instance from inside a guarded body or a *)
(* lifecycle hook (single-threaded re-entry into wrapper, lines 42-69)     *)

NestedCall_NoGuard(op) ==
    /\ alive
    /\ stack # <<>>
    /\ calls < MaxCalls
    /\ calls' = calls + 1
    /\ reentered' = (reentered \/ Top.pc \in {"body", "on_exit"})
    /\ Enter(op)
    /\ UNCHANGED <<cls, status, def_error, alive, snap>>
    /\ UNCHANGED <<devars, tvars>>

\* the callback that is running (the body or a hook of the innermost call in
\* progress) calls a guarded operation: lines 42-51 on a new frame; a call
\* that is rejected raises into the callback, which goes on
NestedCall(op) ==
    /\ alive
    /\ stack # <<>>
    /\ calls < MaxCalls
    /\ calls' = calls + 1
    /\ reentered' = (reentered \/ Top.pc \in {"body", "on_exit"})
    /\ IF state \notin Meta(cls, op).from_states THEN Reject(op) ELSE Enter(op)
    /\ UNCHANGED <<cls, status, def_error, alive, snap>>
    /\ UNCHANGED <<devars, tvars>>

NextNested ==
    \/ Next
    \/ \E op \in Range(OpNames) : NestedCall(op)

SpecNested == InitHistory /\ [][NextNested]_vars

----------------------------------------------------------------------------
(* Properties of the history *)

\* C38: with history tracking on, the last entry of the history is the state
\* the instance reports, in every state an observer can be in: between
\* guarded calls, inside a body, inside an exit hook, inside an enter hook,
\* and after a call that a body or a hook ended by raising.
C38_LastEntryIsState ==
    (alive /\ cls.track_history) =>
        /\ StoredHistory # <<>>
        /\ StoredHistory[Len(StoredHistory)] = state

\* the second transition was committed and its enter hook raised
C38_Witness ==
    /\ cls.track_history
    /\ Done
    /\ calls = 2
    /\ last.outcome = "raised"
    /\ last.origin = "on_enter"
    /\ Len(StoredHistory) = 3
    /\ StoredHistory[3] = state

\* consecutive entries of the history are joined by a guarded operation
IsPath(h) ==
    \A i \in 1..(Len(h) - 1) :
        \E op \in Range(OpNames) : h[i] \in Sources(op) /\ h[i + 1] = Target(op)

\* C39 as stated: with history tracking on, the history is a path in the
\* graph of the guarded operations, whatever guarded calls were made, those
\* made from inside a guarded body or a hook included.
C39_HistoryIsPath ==
    (alive /\ cls.track_history) => IsPath(StoredHistory)

\* C39: with history tracking on, the history is a path in the graph of the
\* guarded operations as long as no guarded call has been made from inside a
\* guarded body or an exit hook; calls made from inside an enter hook keep it.
C39_HistoryIsPathWithoutReentry ==
    (alive /\ cls.track_history /\ ~reentered) => IsPath(StoredHistory)

\* inside the enter hook of paid, ship was called and has committed shipped;
\* it is now in the enter hook of shipped
C39_Witness ==
    /\ cls.track_history
    /\ ~reentered
    /\ Len(stack) = 2
    /\ stack[1].pc = "on_enter" /\ stack[1].op = "pay"
    /\ stack[2].pc = "on_enter" /\ stack[2].op = "ship"
    /\ StoredHistory = <<"pending", "paid", "shipped">>

====
